---- MODULE Spec2Model ----
(***************************************************************************)
(* Model of orange-translator's resumable batching scheduler:              *)
(*   core/pipeline.py          TranslationPipeline.run / _translate_chapter *)
(*   core/translator/ollama.py OllamaTranslator.translate_batch            *)
(*   core/epub/packer.py       pack                                        *)
(* and of its placeholder codec:                                           *)
(*   core/epub/extractor.py    serialize_to_placeholders,                  *)
(*                             restore_from_placeholders                   *)
(* and of the parser of batch responses:                                   *)
(*   core/translator/base.py   _parse_batch_response                       *)
(*                                                                         *)
(* Sections (chapters) are numbered 1..Len(chapters); the code's idx is    *)
(* that number minus one.  Units (blocks) keep the code's 0-based index.   *)
(* A section path (Chapter.abs_path) is a natural number; 0 is a path that *)
(* no section of the document has.  Wall-clock values (duration_sec) and   *)
(* log output are not modelled.                                            *)
(***************************************************************************)
EXTENDS Integers, Sequences, FiniteSets, TLC

\* ---------------------------------------------------------------- bounds
MaxUnits == 4        \* planner specification: units of the section
MaxLen == 3          \* planner specification: encoded length of one unit
MaxBatch == 3        \* planner specification: largest batch_size
MaxChars == 4        \* planner specification: largest batch_char_limit
MaxN == 4            \* bisection specification: units of the one batch
NumSections == 2     \* pipeline specifications: sections of the document
MaxDocUnits == 3     \* pipeline specifications: units of the whole document
MaxNodes == 3        \* codec specification: nodes of a unit's inner markup
MaxEncoded == 2      \* units of one section encoded one after the other
MaxRaw == 4          \* parser specification: tokens of a response
MaxLabel == 3        \* parser specification: largest number in a label
MaxExpected == 2     \* parser specification: units of the request
MaxTags == 3         \* segmentation specification: tags of a section's body
MaxListed == 2       \* resumed run: entries of a progress file in any order
MaxDirect == 1       \* translator gate: calls of translate() from outside run()

\* ------------------------------------------------------ program constants
DEFAULT_MAX_CONCURRENT == 1

VARIABLES
    chapters,            \* parsed.chapters: sequence of [path, lens]
    batch_size,          \* config.batch_size
    char_limit,          \* config.batch_char_limit
    chapter_concurrency, \* config.chapter_concurrency
    has_char_limit,      \* config has the attribute batch_char_limit
    engine,              \* the translator run() was given: "ollama" or "openai"
    progress_file,       \* disk: progress.json (absent, malformed or saved)
    cache_files,         \* disk: path -> content of its cache file, or NoFile
    cache_dir,           \* disk: the cache directory exists
    main_pc,             \* position of run(): "start", "gather", "finished", "crashed",
                         \* "killed"
    loaded_paths,        \* completed_paths as returned by _load_progress
    completed_entries,   \* run(): completed_entries
    entries_is_list,     \* run(): completed_entries is a list (it has append)
    completed_paths,     \* run(): completed_paths
    chapter_contents,    \* run(): chapter_contents (path -> content or NoFile)
    error_count,         \* run(): error_count
    semaphore,           \* run(): free permits of the section gate
    entries_lock,        \* run(): entries_lock, the section holding it or 0
    tr_sem,              \* OllamaTranslator._sem: free permits
    direct,              \* OllamaTranslator.translate: the calls from outside
                         \* run(), "wire" or "done"
    requests,            \* per section: the requests of the translate_batch of
                         \* OpenAICompatTranslator, "wire" or what was answered
    pc,                  \* per section task: its position
    batches,             \* per section: the planner's batches
    batch_idx,           \* per section: batches already handled
    stack,               \* per section: frames of _translate_batch_inner
    inserted,            \* per section: translations inserted into the tree
    call_log,            \* per section: external calls answered so far
    events,              \* per section: ProgressEvents delivered
    output,              \* per section: bytes written by pack
    inner_html,          \* codec: the inner markup of a unit, as the forest
                         \* extractor.py:159 parses it to
    marked_text,         \* codec: marked text of serialize_to_placeholders
    saved,               \* codec: its placeholder map, id -> saved tag
    translated,          \* codec: the text the service returned
    restored,            \* codec: result of restore_from_placeholders
    edit,                \* codec: what the service did to the marked text
    tag_maps,            \* codec: tag_maps, the maps of the units encoded so far
    codec_pc,            \* codec: "idle", "raw", "encoded", "returned", "decoded"
    raw,                 \* parser: the response of a request for several units
    expected,            \* parser: the number of units of that request
    parsed,              \* parser: what _parse_batch_response gave
    parse_pc,            \* parser: "idle", "raw", "done"
    html_content,        \* segmentation: the body of a section, as a forest
    blocks,              \* segmentation: the TextBlocks of extract_blocks
    extract_pc           \* segmentation: "idle", "raw", "done"

vars == <<chapters, batch_size, char_limit, chapter_concurrency, has_char_limit,
          engine, progress_file,
          cache_files, cache_dir, main_pc, loaded_paths, completed_entries,
          entries_is_list, completed_paths, chapter_contents, error_count, semaphore,
          entries_lock, tr_sem, direct, requests, pc, batches, batch_idx, stack, inserted,
          call_log, events, output, inner_html, marked_text, saved, translated,
          restored, edit, tag_maps, codec_pc, raw, expected, parsed,
          parse_pc, html_content, blocks, extract_pc>>

config_vars ==
    <<chapters, batch_size, char_limit, chapter_concurrency, has_char_limit, engine>>

codec_vars ==
    <<inner_html, marked_text, saved, translated, restored, edit, tag_maps,
      codec_pc>>

parse_vars == <<raw, expected, parsed, parse_pc>>

extract_vars == <<html_content, blocks, extract_pc>>

pipeline_vars ==
    <<chapters, batch_size, char_limit, chapter_concurrency, has_char_limit, engine,
      progress_file, cache_files, cache_dir, main_pc, loaded_paths, completed_entries,
      entries_is_list, completed_paths, chapter_contents, error_count, semaphore,
      entries_lock, tr_sem, direct, requests, pc,
      batches, batch_idx, stack, inserted, call_log, events, output>>

\* ---------------------------------------------------------------- helpers
NoFile == [kind |-> "none", path |-> 0, trans |-> <<>>]
Sections == 1..Len(chapters)
AllPaths == 0..NumSections
Terminal == {"skipped", "done", "error"}

RECURSIVE Sum(_)
Sum(s) == IF s = <<>> THEN 0 ELSE Head(s) + Sum(Tail(s))

RECURSIVE Flatten(_)
Flatten(ss) == IF ss = <<>> THEN <<>> ELSE Head(ss) \o Flatten(Tail(ss))

Range(s) == {s[i] : i \in DOMAIN s}

RECURSIVE SeqsUpTo(_, _)
SeqsUpTo(S, n) ==
    IF n = 0 THEN {<<>>}
    ELSE LET shorter == SeqsUpTo(S, n - 1)
         IN shorter \cup {Append(q, x) : q \in {r \in shorter : Len(r) = n - 1}, x \in S}

Ones(n) == [i \in 1..n |-> 1]

\* Chapter.content of a section, and the bytes _translate_chapter returns
OriginalContent(p) == [kind |-> "original", path |-> p, trans |-> <<>>]
TranslatedContent(p, ins) == [kind |-> "bilingual", path |-> p, trans |-> ins]
\* the cache file a previous run wrote for path p
CachedContent(p) == [kind |-> "cached", path |-> p, trans |-> <<>>]

\* ------------------------------------------------------------ the planner
\* pipeline.py:209  len(cur) >= batch_size
CountFullOffByOne(cur, bs) == Len(cur) > bs
CountFull(cur, bs) == Len(cur) >= bs

\* pipeline.py:214  cur_chars + chars > char_limit
CharsOverIgnoresNew(cur_chars, chars, cl) == cur_chars > cl
CharsOver(cur_chars, chars, cl) == cur_chars + chars > cl

\* one iteration of the loop at pipeline.py:206-220
PlanStep(st, i, chars, bs, cl) ==
    LET flush == st.cur # <<>>
                 /\ (CountFull(st.cur, bs) \/ CharsOver(st.cur_chars, chars, cl))
        b  == IF flush THEN Append(st.batches, st.cur) ELSE st.batches
        c  == IF flush THEN <<>> ELSE st.cur
        cc == IF flush THEN 0 ELSE st.cur_chars
    IN [batches |-> b, cur |-> Append(c, i), cur_chars |-> cc + chars]

RECURSIVE PlanLoop(_, _, _, _, _)
PlanLoop(st, i, lens, bs, cl) ==
    IF i >= Len(lens) THEN st
    ELSE PlanLoop(PlanStep(st, i, lens[i + 1], bs, cl), i + 1, lens, bs, cl)

\* pipeline.py:198-222: batches of 0-based unit indices
BuildBatches(lens, bs, cl) ==
    LET st == PlanLoop([batches |-> <<>>, cur |-> <<>>, cur_chars |-> 0],
                       0, lens, bs, cl)
    IN IF st.cur # <<>> THEN Append(st.batches, st.cur) ELSE st.batches

\* --------------------------------------------------------- the translator
\* One activation of _translate_batch_inner: its texts (as unit indices),
\* where it stands ("call": its own request is in flight, "left"/"right":
\* inside the except block awaiting that half) and the left half's result.
Frame(texts) == [texts |-> texts, phase |-> "call", left |-> <<>>]

\* What the capability answers: "ok" (a well-formed answer), "malformed" (an
\* answer that is not what was asked for: for a multi-unit request one that
\* _parse_batch_response rejects), "fault" (the call raises).
Outcomes == {"ok", "malformed", "fault"}

\* ollama.py:84-91  the answers of a request that ran into total_timeout: the
\* text received so far, which for a request for several units lacks a label
\* ("cut") or has them all ("cut_parsed")
TimeoutOutcomes == {"cut", "cut_parsed"}

\* ollama.py:44-103  _stream_chat: what the caller gets.  A fault of the
\* request is not caught and stays a fault; asyncio.TimeoutError is caught
\* (line 86) and the text received so far is returned like any other text.
StreamChatRaisesOnTimeout(o) == IF o \in {"cut", "cut_parsed"} THEN "fault" ELSE o
StreamChat(o) == o

\* ollama.py:123  _parse_batch_response accepts the text
Parses(o) == o \in {"ok", "cut_parsed"}

\* the text a call hands back for unit u
Response(u, o) == [unit |-> u, text |-> o]

\* ollama.py:127  mid = len(texts) // 2
Mid(texts) == Len(texts) \div 2
LeftHalf(texts) == SubSeq(texts, 1, Mid(texts))
RightHalf(texts) == SubSeq(texts, Mid(texts) + 1, Len(texts))

\* ollama.py:134  return left + right
ConcatRightFirst(left, right) == right \o left
Concat(left, right) == left \o right

\* ollama.py:132-134: a (sub-)batch returned v to the frames below it
RECURSIVE Unwind(_, _)
Unwind(stk, v) ==
    IF stk = <<>> THEN [stack |-> <<>>, status |-> "returned", value |-> v]
    ELSE LET f == Head(stk)
         IN IF f.phase = "left"
            THEN [stack  |-> <<Frame(RightHalf(f.texts)),
                               [f EXCEPT !.phase = "right", !.left = v]>>
                             \o Tail(stk),
                  status |-> "calling", value |-> <<>>]
            ELSE Unwind(Tail(stk), Concat(f.left, v))

\* ollama.py:115-116: a single text is sent with _do_translate and whatever
\* comes back is the result; a fault is not caught here nor by the callers,
\* which all stand inside their except block
SingleUnitRejectsMalformed(stk, o) ==
    IF o # "ok"
    THEN [stack |-> <<>>, status |-> "raised", value |-> <<>>]
    ELSE Unwind(Tail(stk), <<Response(Head(stk).texts[1], o)>>)
SingleUnitSwallowsFault(stk, o) ==
    Unwind(Tail(stk), <<Response(Head(stk).texts[1], o)>>)
SingleUnit(stk, o) ==
    IF o = "fault"
    THEN [stack |-> <<>>, status |-> "raised", value |-> <<>>]
    ELSE Unwind(Tail(stk), <<Response(Head(stk).texts[1], o)>>)

\* ollama.py:120-134: a request for several texts; anything but a parsed
\* answer (a parse failure or a fault) halves the batch, left half first
MultiUnit(stk, o) ==
    LET f == Head(stk)
    IN IF Parses(o)
       THEN Unwind(Tail(stk), [j \in 1..Len(f.texts) |-> Response(f.texts[j], o)])
       ELSE [stack  |-> <<Frame(LeftHalf(f.texts)), [f EXCEPT !.phase = "left"]>>
                        \o Tail(stk),
             status |-> "calling", value |-> <<>>]

\* ollama.py:113-134: the request of the top frame was answered with o
HandleResponseNoBaseCase(stk, o) == MultiUnit(stk, o)
HandleResponse(stk, o) ==
    IF Len(Head(stk).texts) = 1 THEN SingleUnit(stk, o) ELSE MultiUnit(stk, o)

\* ----------------------------------------------------------- the pipeline
Event(status, block_index, block_total) ==
    [status |-> status, block_index |-> block_index, block_total |-> block_total]

PathOf(s) == chapters[s].path
UnitsOf(s) == Len(chapters[s].lens)

\* the section keys of the document
DocPaths == {PathOf(s) : s \in Sections}

\* pipeline.py:280  the paths a list of entries names
EntryPaths(entries) == {e.path : e \in Range(entries)}

\* pipeline.py:273-283  _load_progress: no file and an unreadable file both
\* give the empty list
LoadedEntriesKnownOnly(file) ==
    IF file.state = "saved"
    THEN SelectSeq(file.completed, LAMBDA e : e.path \in DocPaths)
    ELSE <<>>
LoadedEntries(file) == IF file.state = "saved" THEN file.completed ELSE <<>>

\* pipeline.py:285-288  _save_progress
SavedProgress(entries) == [state |-> "saved", completed |-> entries]

\* no progress.json, and one that json.loads or the entry access rejects
AbsentFile == [state |-> "absent", completed |-> <<>>]
MalformedFile == [state |-> "malformed", completed |-> <<>>]
\* a progress.json that parses and whose entry has a "path" that is not a
\* string: _load_progress returns it, and it has no .encode() for _cache_path
BadPathFile == [state |-> "badpath", completed |-> <<>>]

\* a progress.json that parses and whose "completed" is no list, but
\* something without entries that can be gone through ({} or ""):
\* _load_progress returns it as it is
NotAListFile == [state |-> "notalist", completed |-> <<>>]

\* pipeline.py:279-281: what _load_progress returns as entries is a list
LoadsList(file) == file.state # "notalist"

\* pipeline.py:98-99 and 290-291: restoring the cache raises for such an entry
RestoreRaises(file) == file.state = "badpath"

\* pipeline.py:85-88: the first lines of run() read config.batch_char_limit
ConfigRaises == ~has_char_limit

\* pipeline.py:112  async with semaphore: a permit of the gate is free
GateAlwaysFree == TRUE
GateFree == semaphore > 0

\* pipeline.py:129  async with entries_lock: nobody holds the lock
LockAlwaysFree == TRUE
LockFree == entries_lock = 0

\* pipeline.py:113  chapter.abs_path in completed_paths
NeverSkip(s) == FALSE
IsCompleted(s) == PathOf(s) \in completed_paths

\* pipeline.py:239  the loop over the batches has more to do
BatchesLeftNone(s, done) == FALSE
BatchesLeft(s, done) == done < Len(batches[s])

\* pipeline.py:258-262  zip(indices, translations): pairs up to the shorter
ZipBackwards(indices, translations) ==
    LET n == IF Len(indices) < Len(translations) THEN Len(indices)
             ELSE Len(translations)
    IN [j \in 1..n |-> [block |-> indices[n + 1 - j],
                        translation |-> translations[n + 1 - j]]]
Zip(indices, translations) ==
    LET n == IF Len(indices) < Len(translations) THEN Len(indices)
             ELSE Len(translations)
    IN [j \in 1..n |-> [block |-> indices[j], translation |-> translations[j]]]

\* pipeline.py:109  asyncio.Semaphore(value) raises ValueError for value < 0
SemaphoreRaises(value) == value < 0

\* pipeline.py:68-109  run() up to the creation of the section tasks
RunStart ==
    /\ main_pc = "start"
    /\ cache_dir' = TRUE
    /\ IF ConfigRaises \/ RestoreRaises(progress_file)
       THEN /\ main_pc' = "crashed"
            /\ UNCHANGED <<completed_entries, entries_is_list, completed_paths,
                           loaded_paths, chapter_contents, error_count, semaphore,
                           entries_lock>>
       ELSE /\ LET entries == LoadedEntries(progress_file)
               IN /\ completed_entries' = entries
                  /\ completed_paths' = {e.path : e \in Range(entries)}
                  /\ loaded_paths' = {e.path : e \in Range(entries)}
                  /\ chapter_contents' =
                        [p \in AllPaths |->
                            IF p \in {e.path : e \in Range(entries)} THEN cache_files[p]
                            ELSE NoFile]
            /\ entries_is_list' = LoadsList(progress_file)
            /\ error_count' = 0
            /\ entries_lock' = 0
            /\ IF SemaphoreRaises(chapter_concurrency)
               THEN main_pc' = "crashed" /\ UNCHANGED semaphore
               ELSE main_pc' = "gather" /\ semaphore' = chapter_concurrency
    /\ UNCHANGED <<codec_vars, parse_vars, extract_vars>>
    /\ UNCHANGED <<config_vars, direct, requests, progress_file, cache_files, tr_sem,
                   pc, batches, batch_idx, stack, inserted, call_log, events, output>>

\* pipeline.py:111-123 and 178-252: a section task gets a permit of the gate
\* and runs to its first suspension
StartChapter(s) ==
    /\ main_pc = "gather"
    /\ pc[s] = "pending"
    /\ GateFree
    /\ IF IsCompleted(s)
       THEN /\ events' = [events EXCEPT ![s] = Append(@, Event("skipped", 0, 0))]
            /\ pc' = [pc EXCEPT ![s] = "skipped"]
            /\ UNCHANGED <<semaphore, batches>>
       ELSE IF UnitsOf(s) = 0
       THEN /\ pc' = [pc EXCEPT ![s] = "finishing"]
            /\ semaphore' = semaphore - 1
            /\ UNCHANGED <<events, batches>>
       ELSE /\ batches' = [batches EXCEPT ![s] =
                              BuildBatches(chapters[s].lens, batch_size, char_limit)]
            /\ events' = [events EXCEPT ![s] =
                              Append(@, Event("translating", 0, UnitsOf(s)))]
            /\ pc' = [pc EXCEPT ![s] = "tr_wait"]
            /\ semaphore' = semaphore - 1
    /\ UNCHANGED <<codec_vars, parse_vars, extract_vars>>
    /\ UNCHANGED <<config_vars, entries_is_list, direct, requests,
                   progress_file, cache_files, cache_dir, main_pc, loaded_paths,
                   completed_entries, completed_paths, chapter_contents,
                   error_count, entries_lock, tr_sem, batch_idx, stack,
                   inserted, call_log, output>>

\* ollama.py:110  async with self._sem: a permit of the translator is free
PermitAlwaysFree == TRUE
PermitFree == tr_sem > 0

\* ollama.py:108-111 and the first request of _translate_batch_inner
TranslateBatch(s) ==
    /\ main_pc = "gather"
    /\ engine = "ollama"
    /\ pc[s] = "tr_wait"
    /\ PermitFree
    /\ tr_sem' = tr_sem - 1
    /\ stack' = [stack EXCEPT ![s] = <<Frame(batches[s][batch_idx[s] + 1])>>]
    /\ pc' = [pc EXCEPT ![s] = "call"]
    /\ UNCHANGED <<codec_vars, parse_vars, extract_vars>>
    /\ UNCHANGED <<config_vars, entries_is_list, direct, requests,
                   progress_file, cache_files, cache_dir, main_pc, loaded_paths,
                   completed_entries, completed_paths, chapter_contents,
                   error_count, semaphore, entries_lock, batches, batch_idx,
                   inserted, call_log, events, output>>

\* pipeline.py:136-148: the except branch of the section task
ChapterFailedKeepsPermit(s) ==
    /\ error_count' = error_count + 1
    /\ events' = [events EXCEPT ![s] = Append(@, Event("error", 0, 0))]
    /\ pc' = [pc EXCEPT ![s] = "error"]
    /\ UNCHANGED <<batch_idx, inserted, semaphore>>
ChapterFailed(s) ==
    /\ error_count' = error_count + 1
    /\ events' = [events EXCEPT ![s] = Append(@, Event("error", 0, 0))]
    /\ semaphore' = semaphore + 1
    /\ pc' = [pc EXCEPT ![s] = "error"]
    /\ UNCHANGED <<batch_idx, inserted>>

\* pipeline.py:255-269: translate_batch returned the translations of a batch
BatchReturned(s, translations) ==
    LET indices == batches[s][batch_idx[s] + 1]
        ins == inserted[s] \o Zip(indices, translations)
        done == batch_idx[s] + 1
    IN /\ inserted' = [inserted EXCEPT ![s] = ins]
       /\ batch_idx' = [batch_idx EXCEPT ![s] = done]
       /\ IF BatchesLeft(s, done)
          THEN /\ events' = [events EXCEPT ![s] =
                                Append(@, Event("translating", Len(ins), UnitsOf(s)))]
               /\ pc' = [pc EXCEPT ![s] = "tr_wait"]
          ELSE /\ events' = [events EXCEPT ![s] =
                                Append(@, Event("done", UnitsOf(s), UnitsOf(s)))]
               /\ pc' = [pc EXCEPT ![s] = "finishing"]
       /\ UNCHANGED <<error_count, semaphore>>

\* The request in flight for section s is answered with o; the task runs on
\* to its next suspension (ollama.py:113-134, pipeline.py:255-269, 136-148).
Respond(s, o) ==
    /\ main_pc = "gather"
    /\ engine = "ollama"
    /\ pc[s] = "call"
    /\ LET h == HandleResponse(stack[s], StreamChat(o))
       IN /\ call_log' = [call_log EXCEPT ![s] =
                             Append(@, [texts |-> Head(stack[s]).texts, resp |-> o])]
          /\ stack' = [stack EXCEPT ![s] = h.stack]
          /\ CASE h.status = "calling" ->
                    UNCHANGED <<tr_sem, pc, batch_idx, inserted, events,
                                error_count, semaphore>>
               [] h.status = "raised" ->
                    /\ tr_sem' = tr_sem + 1
                    /\ ChapterFailed(s)
               [] h.status = "returned" ->
                    /\ tr_sem' = tr_sem + 1
                    /\ BatchReturned(s, h.value)
    /\ UNCHANGED <<codec_vars, parse_vars, extract_vars>>
    /\ UNCHANGED <<config_vars, entries_is_list, direct, requests,
                   progress_file, cache_files, cache_dir, main_pc, loaded_paths,
                   completed_entries, completed_paths, chapter_contents,
                   entries_lock, batches, output>>

\* openai_compat.py:55-57  translate_batch of OpenAICompatTranslator: one
\* translate() for every text of the batch, all started at once; there is no
\* permit
GatherBatch(s) ==
    /\ main_pc = "gather"
    /\ engine = "openai"
    /\ pc[s] = "tr_wait"
    /\ LET texts == batches[s][batch_idx[s] + 1]
       IN requests' = [requests EXCEPT ![s] =
                          [j \in DOMAIN texts |-> [unit |-> texts[j], resp |-> "wire"]]]
    /\ pc' = [pc EXCEPT ![s] = "call"]
    /\ UNCHANGED <<codec_vars, parse_vars, extract_vars>>
    /\ UNCHANGED <<config_vars, entries_is_list, direct, progress_file, cache_files,
                   cache_dir, main_pc, loaded_paths, completed_entries,
                   completed_paths, chapter_contents, error_count, semaphore,
                   entries_lock, tr_sem, batches, batch_idx, stack, inserted,
                   call_log, events, output>>

\* the requests of a translate_batch that are not answered yet
OnWire(reqs) == {j \in DOMAIN reqs : reqs[j].resp = "wire"}

\* the answered requests rs as entries of the log of calls
Logged(rs) == [k \in DOMAIN rs |-> [texts |-> <<rs[k].unit>>, resp |-> rs[k].resp]]

\* openai_compat.py:41-57: request j of the batch of section s is answered
\* with o.  translate() returns the text of any answer and raises for a
\* fault; gather raises the first fault at once, which ends the section
\* task (pipeline.py:136-148) with the other requests still out, and returns
\* the texts in the order of the requests when the last one is answered
\* (pipeline.py:255-269).  The order in which the answers before that came
\* in is seen by nobody: the log takes them in the order of the requests when
\* gather returns or raises, a fault last.
RespondOne(s, j, o) ==
    /\ main_pc = "gather"
    /\ engine = "openai"
    /\ pc[s] = "call"
    /\ j \in OnWire(requests[s])
    /\ LET answered == [requests[s] EXCEPT ![j].resp = o]
       IN IF o = "fault"
          THEN /\ call_log' = [call_log EXCEPT ![s] =
                      @ \o Logged(SelectSeq(answered,
                                            LAMBDA r : r.resp \notin {"wire", "fault"}))
                        \o <<[texts |-> <<answered[j].unit>>, resp |-> o]>>]
               /\ requests' = [requests EXCEPT ![s] =
                                  SelectSeq(answered, LAMBDA r : r.resp = "wire")]
               /\ ChapterFailed(s)
          ELSE IF OnWire(answered) = {}
          THEN /\ call_log' = [call_log EXCEPT ![s] = @ \o Logged(answered)]
               /\ requests' = [requests EXCEPT ![s] = <<>>]
               /\ BatchReturned(s, [k \in DOMAIN answered |->
                                       Response(answered[k].unit, answered[k].resp)])
          ELSE /\ requests' = [requests EXCEPT ![s] = answered]
               /\ UNCHANGED <<call_log, pc, batch_idx, inserted, events, error_count,
                              semaphore>>
    /\ UNCHANGED <<codec_vars, parse_vars, extract_vars>>
    /\ UNCHANGED <<config_vars, entries_is_list, direct, progress_file, cache_files,
                   cache_dir, main_pc, loaded_paths, completed_entries,
                   completed_paths, chapter_contents, entries_lock, tr_sem, batches,
                   stack, output>>

\* openai_compat.py:57: the requests that were still out when gather raised
\* go on; their answers, whatever they are, reach nobody
RespondOrphan(s, j) ==
    /\ engine = "openai"
    /\ pc[s] = "error"
    /\ j \in OnWire(requests[s])
    /\ requests' = [requests EXCEPT ![s][j].resp = "dropped"]
    /\ UNCHANGED <<codec_vars, parse_vars, extract_vars>>
    /\ UNCHANGED <<config_vars, entries_is_list, direct, progress_file, cache_files,
                   cache_dir, main_pc, loaded_paths, completed_entries,
                   completed_paths, chapter_contents, error_count, semaphore,
                   entries_lock, tr_sem, pc, batches, batch_idx, stack, inserted,
                   call_log, events, output>>

\* the calls of translate() from outside run() that are not answered yet
DirectOnWire == {j \in DOMAIN direct : direct[j] = "wire"}

\* ollama.py:40-42  translate: a caller outside run() takes the permit of
\* the translator and sends its request
Translate ==
    /\ engine = "ollama"
    /\ Len(direct) < MaxDirect
    /\ PermitFree
    /\ tr_sem' = tr_sem - 1
    /\ direct' = Append(direct, "wire")
    /\ UNCHANGED <<codec_vars, parse_vars, extract_vars>>
    /\ UNCHANGED <<config_vars, entries_is_list, requests, progress_file, cache_files,
                   cache_dir, main_pc, loaded_paths, completed_entries,
                   completed_paths, chapter_contents, error_count, semaphore,
                   entries_lock, pc, batches, batch_idx, stack, inserted,
                   call_log, events, output>>

\* ollama.py:41-42: the request of such a caller is answered or raises;
\* leaving the with block frees the permit either way
TranslateReturned(j) ==
    /\ j \in DirectOnWire
    /\ direct' = [direct EXCEPT ![j] = "done"]
    /\ tr_sem' = tr_sem + 1
    /\ UNCHANGED <<codec_vars, parse_vars, extract_vars>>
    /\ UNCHANGED <<config_vars, entries_is_list, requests, progress_file, cache_files,
                   cache_dir, main_pc, loaded_paths, completed_entries,
                   completed_paths, chapter_contents, error_count, semaphore,
                   entries_lock, pc, batches, batch_idx, stack, inserted,
                   call_log, events, output>>

\* pipeline.py:184 and 271: the bytes _translate_chapter returns
NewContent(s) ==
    IF UnitsOf(s) = 0 THEN OriginalContent(PathOf(s))
    ELSE TranslatedContent(PathOf(s), inserted[s])

\* pipeline.py:129  async with entries_lock: the task takes the lock
EnterCritical(s) ==
    /\ main_pc = "gather"
    /\ pc[s] = "finishing"
    /\ LockFree
    /\ entries_lock' = s
    /\ pc' = [pc EXCEPT ![s] = "critical"]
    /\ UNCHANGED <<codec_vars, parse_vars, extract_vars>>
    /\ UNCHANGED <<config_vars, entries_is_list, direct, requests,
                   progress_file, cache_files, cache_dir, main_pc, loaded_paths,
                   completed_entries, completed_paths, chapter_contents,
                   error_count, semaphore, tr_sem, batches, batch_idx, stack,
                   inserted, call_log, events, output>>

\* pipeline.py:130-135: the critical section that records a finished section;
\* leaving it frees the lock and then the gate's permit.  When what was
\* loaded as completed_entries is no list, append (line 133) raises after the
\* cache file and chapter_contents were written, and the task ends in its
\* except branch (lines 136-148).
Complete(s) ==
    /\ main_pc = "gather"
    /\ pc[s] = "critical"
    /\ cache_files' = [cache_files EXCEPT ![PathOf(s)] = NewContent(s)]
    /\ chapter_contents' = [chapter_contents EXCEPT ![PathOf(s)] = NewContent(s)]
    /\ IF entries_is_list
       THEN /\ LET entries == Append(completed_entries, [path |-> PathOf(s)])
               IN /\ completed_entries' = entries
                  /\ completed_paths' = completed_paths \cup {PathOf(s)}
                  /\ progress_file' = SavedProgress(entries)
            /\ pc' = [pc EXCEPT ![s] = "done"]
            /\ UNCHANGED <<error_count, events>>
       ELSE /\ error_count' = error_count + 1
            /\ events' = [events EXCEPT ![s] = Append(@, Event("error", 0, 0))]
            /\ pc' = [pc EXCEPT ![s] = "error"]
            /\ UNCHANGED <<completed_entries, completed_paths, progress_file>>
    /\ entries_lock' = 0
    /\ semaphore' = semaphore + 1
    /\ UNCHANGED <<codec_vars, parse_vars, extract_vars>>
    /\ UNCHANGED <<config_vars, entries_is_list, direct, requests, cache_dir, main_pc,
                   loaded_paths, tr_sem, batches, batch_idx, stack, inserted,
                   call_log, output>>

\* packer.py:106-109: the new content of a section if there is one, else its own
PackedBlankWhenMissing(s) == chapter_contents[PathOf(s)]
Packed(s) ==
    IF chapter_contents[PathOf(s)] # NoFile THEN chapter_contents[PathOf(s)]
    ELSE OriginalContent(PathOf(s))

\* pipeline.py:165  error_count == 0 and self.cache_dir.exists()
ShouldCleanAlways == TRUE
ShouldClean == error_count = 0 /\ cache_dir

\* pipeline.py:151-173: all section tasks ended; pack, then remove the cache
\* directory if no section failed
Pack ==
    /\ main_pc = "gather"
    /\ \A s \in Sections : pc[s] \in Terminal
    /\ output' = [s \in Sections |-> Packed(s)]
    /\ IF ShouldClean
       THEN /\ progress_file' = AbsentFile
            /\ cache_files' = [p \in AllPaths |-> NoFile]
            /\ cache_dir' = FALSE
       ELSE UNCHANGED <<progress_file, cache_files, cache_dir>>
    /\ main_pc' = "finished"
    /\ UNCHANGED <<codec_vars, parse_vars, extract_vars>>
    /\ UNCHANGED <<config_vars, entries_is_list, direct, requests,
                   loaded_paths, completed_entries, completed_paths,
                   chapter_contents, error_count, semaphore, entries_lock,
                   tr_sem, pc, batches, batch_idx, stack, inserted, call_log,
                   events>>

\* a run with an OllamaTranslator
NextOllama ==
    \/ RunStart
    \/ \E s \in Sections : StartChapter(s)
    \/ \E s \in Sections : TranslateBatch(s)
    \/ \E s \in Sections, o \in Outcomes : Respond(s, o)
    \/ \E s \in Sections : EnterCritical(s)
    \/ \E s \in Sections : Complete(s)
    \/ Pack

\* a run with either translator in which every batch holds one unit: a
\* gather of one request leaves no request out when it raises
NextUnitBatches ==
    \/ NextOllama
    \/ \E s \in Sections : GatherBatch(s)
    \/ \E s \in Sections, j \in 1..MaxDocUnits, o \in Outcomes : RespondOne(s, j, o)

\* a run with either translator
Next ==
    \/ NextUnitBatches
    \/ \E s \in Sections, j \in 1..MaxDocUnits : RespondOrphan(s, j)

\* ------------------------------------------------------------ initial states
\* The state when run() is entered: the document, the configuration and what
\* an earlier run left on disk.
PipelineEntered(doc, bs, cl, conc, file, cached) ==
    /\ chapters = doc
    /\ batch_size = bs
    /\ char_limit = cl
    /\ chapter_concurrency = conc
    /\ progress_file = file
    /\ cache_files = [p \in AllPaths |-> IF p \in cached THEN CachedContent(p) ELSE NoFile]
    /\ cache_dir = (file # AbsentFile \/ cached # {})
    /\ main_pc = "start"
    /\ loaded_paths = {}
    /\ completed_entries = <<>>
    /\ entries_is_list = TRUE
    /\ completed_paths = {}
    /\ chapter_contents = [p \in AllPaths |-> NoFile]
    /\ error_count = 0
    /\ semaphore = 0
    /\ entries_lock = 0
    /\ tr_sem = DEFAULT_MAX_CONCURRENT
    /\ direct = <<>>
    /\ requests = [s \in DOMAIN doc |-> <<>>]
    /\ pc = [s \in DOMAIN doc |-> "pending"]
    /\ batches = [s \in DOMAIN doc |-> <<>>]
    /\ batch_idx = [s \in DOMAIN doc |-> 0]
    /\ stack = [s \in DOMAIN doc |-> <<>>]
    /\ inserted = [s \in DOMAIN doc |-> <<>>]
    /\ call_log = [s \in DOMAIN doc |-> <<>>]
    /\ events = [s \in DOMAIN doc |-> <<>>]
    /\ output = <<>>

\* no unit is at the codec
CodecIdle ==
    /\ inner_html = <<>>
    /\ marked_text = <<>>
    /\ saved = <<>>
    /\ translated = <<>>
    /\ restored = <<>>
    /\ edit = [kind |-> "none"]
    /\ tag_maps = <<>>
    /\ codec_pc = "idle"

\* no response is at the parser
ParseIdle ==
    /\ raw = <<>>
    /\ expected = 0
    /\ parsed = [status |-> "none", value |-> <<>>]
    /\ parse_pc = "idle"

\* no section is at the segmentation
ExtractIdle ==
    /\ html_content = <<>>
    /\ blocks = <<>>
    /\ extract_pc = "idle"

\* the translator run() was given, and whether its configuration has the
\* attribute batch_char_limit: the TranslateConfig of config.py:24-33 has
\* none, run() reads it at pipeline.py:87 and 200
Engines == {"ollama", "openai"}
Configured(eng, has) ==
    /\ engine = eng
    /\ has_char_limit = has

Entered(doc, bs, cl, conc, file, cached) ==
    /\ PipelineEntered(doc, bs, cl, conc, file, cached)
    /\ CodecIdle
    /\ ParseIdle
    /\ ExtractIdle

\* the documents of NumSections sections with distinct paths, every unit of
\* encoded length 1, at most MaxDocUnits units in all
Documents ==
    {[s \in 1..NumSections |-> [path |-> s, lens |-> Ones(units[s])]] :
        units \in {u \in [1..NumSections -> 0..MaxDocUnits] :
                      Sum(u) <= MaxDocUnits}}

\* A fresh run: no progress file, no cache.
Init ==
    \E eng \in Engines, doc \in Documents, bs \in 1..MaxDocUnits,
       conc \in 1..NumSections :
        /\ Configured(eng, TRUE)
        /\ Entered(doc, bs, MaxDocUnits, conc, AbsentFile, {})

Spec == Init /\ [][Next]_vars

\* ------------------------------------------- the planner on its own inputs
\* One section whose units have any encoded lengths, under any positive
\* limits; the run goes as far as the section's plan.
InitPlan ==
    \E lens \in SeqsUpTo(1..MaxLen, MaxUnits), bs \in 1..MaxBatch, cl \in 1..MaxChars :
        /\ Configured("ollama", TRUE)
        /\ Entered(<<[path |-> 1, lens |-> lens]>>, bs, cl, 1, AbsentFile, {})

NextPlan == RunStart \/ StartChapter(1)

SpecPlan == InitPlan /\ [][NextPlan]_vars

\* the section's task is past the planner
Planned(s) == pc[s] \notin {"pending", "skipped"}

\* the encoded lengths of the units of a batch
BatchLens(s, b) == [j \in 1..Len(b) |-> chapters[s].lens[b[j] + 1]]

\* C1: the batches are non-empty, hold consecutive increasing unit indices,
\* concatenate to 0..n-1 (every unit once) and hold at most batch_size units.
C1_BatchPartition ==
    \A s \in Sections : Planned(s) =>
        /\ \A k \in DOMAIN batches[s] :
              /\ batches[s][k] # <<>>
              /\ Len(batches[s][k]) <= batch_size
              /\ \A j \in 1..(Len(batches[s][k]) - 1) :
                    batches[s][k][j + 1] = batches[s][k][j] + 1
        /\ Flatten(batches[s]) = [i \in 1..UnitsOf(s) |-> i - 1]

\* a plan of three batches or more, cut once by the count and once by the chars
C1_Witness ==
    /\ Planned(1)
    /\ Len(batches[1]) >= 3
    /\ batch_size >= 2
    /\ \E k \in DOMAIN batches[1] : Len(batches[1][k]) = batch_size
    /\ \E k \in 1..(Len(batches[1]) - 1) : Len(batches[1][k]) < batch_size

\* C2: a batch of more than one unit sums to at most char_limit, and a unit
\* longer than char_limit is the only unit of its batch.
C2_CharBudget ==
    \A s \in Sections : Planned(s) =>
        /\ \A k \in DOMAIN batches[s] :
              Len(batches[s][k]) > 1 =>
                  Sum(BatchLens(s, batches[s][k])) <= char_limit
        /\ \A i \in 0..(UnitsOf(s) - 1) :
              chapters[s].lens[i + 1] > char_limit =>
                  \E k \in DOMAIN batches[s] : batches[s][k] = <<i>>

\* an oversized unit between two batches, one of them of several units
C2_Witness ==
    /\ Planned(1)
    /\ \E k \in 2..(Len(batches[1]) - 1) :
          /\ Len(batches[1][k]) = 1
          /\ chapters[1].lens[batches[1][k][1] + 1] > char_limit
    /\ \E k \in DOMAIN batches[1] :
          /\ Len(batches[1][k]) > 1
          /\ Sum(BatchLens(1, batches[1][k])) = char_limit

\* ----------------------------------------------- one batch, any capability
\* One section of n units planned as one batch of n; the capability answers
\* every request in any of the three ways.
InitBisect ==
    \E n \in 1..MaxN :
        /\ Configured("ollama", TRUE)
        /\ Entered(<<[path |-> 1, lens |-> Ones(n)]>>, n, n, 1, AbsentFile, {})

SpecBisect == InitBisect /\ [][NextOllama]_vars

\* The same batch with a capability that may also run into the total timeout.
NextTimeout ==
    \/ NextOllama
    \/ \E s \in Sections, o \in TimeoutOutcomes : Respond(s, o)

SpecTimeout == InitBisect /\ [][NextTimeout]_vars

\* the texts of the requests of section s that are out and not in the log
WireTexts(s) ==
    IF engine = "ollama"
    THEN (IF pc[s] = "call" THEN {Head(stack[s]).texts} ELSE {})
    ELSE {<<requests[s][j].unit>> : j \in DOMAIN requests[s]}

\* external calls issued so far for section s: those in the log and those out
Calls(s) ==
    Len(call_log[s])
        + (IF engine = "ollama" THEN (IF pc[s] = "call" THEN 1 ELSE 0)
           ELSE Len(requests[s]))

\* every answer section s got so far was of kind o
AllAnswers(s, o) == \A k \in DOMAIN call_log[s] : call_log[s][k].resp = o

\* translate_batch has returned or raised for the (only) batch of section s
BatchOver(s) == pc[s] \in {"finishing", "critical", "done", "error"}

\* C3: with every response malformed, a batch of n units takes exactly
\* 2n - 1 external calls, no sub-batch is requested twice, and the number of
\* calls never exceeds 2n - 1 (the recursion cannot go on).
C3_BisectionCalls ==
    \A s \in Sections :
        AllAnswers(s, "malformed") =>
            /\ Calls(s) <= 2 * UnitsOf(s) - 1
            /\ \A j, k \in DOMAIN call_log[s] :
                  call_log[s][j].texts = call_log[s][k].texts => j = k
            /\ (Planned(s) /\ BatchOver(s)) => Len(call_log[s]) = 2 * UnitsOf(s) - 1

\* a batch of three units or more bisected down to singletons
C3_Witness ==
    /\ UnitsOf(1) >= 3
    /\ AllAnswers(1, "malformed")
    /\ BatchOver(1)
    /\ Len(call_log[1]) = 2 * UnitsOf(1) - 1

\* the (sub-)batches requested so far for section s, answered or in flight
Requested(s) ==
    {call_log[s][k].texts : k \in DOMAIN call_log[s]} \cup WireTexts(s)

\* the k-th call of section s was for one unit / was for several and got bisected
IsSingle(s, k) == Len(call_log[s][k].texts) = 1
IsBisected(s, k) == Len(call_log[s][k].texts) > 1 /\ call_log[s][k].resp # "ok"

\* section s delivered an error event
ErrorReported(s) == \E j \in DOMAIN events[s] : events[s][j].status = "error"

\* C4 as stated: a malformed answer to a single-unit call is reported as a
\* failure and is not taken as the unit's translation.
C4_Original ==
    \A s \in Sections : \A k \in DOMAIN call_log[s] :
        (IsSingle(s, k) /\ call_log[s][k].resp = "malformed") =>
            /\ \A j \in DOMAIN inserted[s] : inserted[s][j].translation.text # "malformed"
            /\ BatchOver(s) => ErrorReported(s)

\* C4 as the code has it: a single-unit call is made once and never repeated;
\* its answer, malformed or not, becomes the unit's translation; only a fault
\* fails, and with every answer malformed nothing is reported as failed and
\* all n units get the malformed text.
C4_SingleUnitAccepted ==
    \A s \in Sections :
        /\ \A k \in DOMAIN call_log[s] : IsSingle(s, k) =>
              /\ \A j \in DOMAIN call_log[s] :
                    call_log[s][j].texts = call_log[s][k].texts => j = k
              /\ pc[s] = "call" => Head(stack[s]).texts # call_log[s][k].texts
              /\ (call_log[s][k].resp # "fault" /\ pc[s] \in {"finishing", "critical", "done"}) =>
                    \E j \in DOMAIN inserted[s] :
                        inserted[s][j] =
                            [block |-> call_log[s][k].texts[1],
                             translation |-> Response(call_log[s][k].texts[1],
                                                      call_log[s][k].resp)]
        /\ pc[s] = "error" =>
              /\ IsSingle(s, Len(call_log[s]))
              /\ call_log[s][Len(call_log[s])].resp = "fault"
        /\ (AllAnswers(s, "malformed") /\ Planned(s) /\ BatchOver(s)) =>
              /\ pc[s] # "error"
              /\ ~ErrorReported(s)
              /\ error_count = 0
              /\ Len(inserted[s]) = UnitsOf(s)
              /\ \A j \in DOMAIN inserted[s] : inserted[s][j].translation.text = "malformed"

\* two units or more, every answer malformed, all of them inserted
C4_Witness ==
    /\ UnitsOf(1) >= 2
    /\ AllAnswers(1, "malformed")
    /\ pc[1] = "done"
    /\ Len(inserted[1]) = UnitsOf(1)
    /\ \A j \in DOMAIN inserted[1] : inserted[1][j].translation.text = "malformed"

\* a single-unit call inside the left half of the k-th call faulted after it
FaultInLeftHalf(s, k) ==
    \E j \in DOMAIN call_log[s] :
        /\ j > k
        /\ IsSingle(s, j)
        /\ call_log[s][j].resp = "fault"
        /\ call_log[s][j].texts[1] \in Range(LeftHalf(call_log[s][k].texts))

\* C5 as stated: once a batch is bisected, a failure met while handling its
\* first half does not keep the second half from being dispatched.
C5_Original ==
    \A s \in Sections : \A k \in DOMAIN call_log[s] :
        (IsBisected(s, k) /\ FaultInLeftHalf(s, k) /\ BatchOver(s)) =>
            RightHalf(call_log[s][k].texts) \in Requested(s)

\* ------------------------------------------------- sections of a fresh run
\* the units of the batches of section s handled so far, in order
HandledUnits(s) == Flatten(SubSeq(batches[s], 1, batch_idx[s]))

\* the blocks that got a translation inserted, in insertion order
InsertedBlocks(s) == [j \in DOMAIN inserted[s] |-> inserted[s][j].block]

\* section s is listed in the record: in memory or in the progress file
Recorded(s) ==
    \/ PathOf(s) \in completed_paths
    \/ [path |-> PathOf(s)] \in Range(completed_entries)
    \/ [path |-> PathOf(s)] \in Range(progress_file.completed)

\* a single-unit call of section s faulted
UnitFaulted(s) ==
    \E k \in DOMAIN call_log[s] : IsSingle(s, k) /\ call_log[s][k].resp = "fault"

\* C6 as stated: after a unit of a section failed, every other unit of the
\* section still gets its translation inserted.
C6_Original ==
    \A s \in Sections : \A k \in DOMAIN call_log[s] :
        (IsSingle(s, k) /\ call_log[s][k].resp = "fault" /\ pc[s] \in Terminal) =>
            \A u \in 0..(UnitsOf(s) - 1) :
                u # call_log[s][k].texts[1] => u \in Range(InsertedBlocks(s))

\* C7 as stated: a section that met any external fault is never recorded
\* and gets no cache file.
C7_Original ==
    \A s \in Sections :
        (\E k \in DOMAIN call_log[s] : call_log[s][k].resp = "fault") =>
            ~Recorded(s) /\ cache_files[PathOf(s)] = NoFile

\* C7 as the code has it: a section whose task ended in error is never
\* recorded, in memory or in the progress file, and has no cache file, also
\* after the run ended (the cache directory then stays, for the failure);
\* a fault of a multi-unit call that bisection recovered from does not count.
C7_FailedNotRecorded ==
    \A s \in Sections :
        /\ pc[s] = "error" =>
              /\ ~Recorded(s)
              /\ cache_files[PathOf(s)] = NoFile
              /\ chapter_contents[PathOf(s)] = NoFile
              /\ main_pc = "finished" =>
                    \A t \in Sections :
                        pc[t] = "done" =>
                            /\ [path |-> PathOf(t)] \in Range(progress_file.completed)
                            /\ cache_files[PathOf(t)] = NewContent(t)
        /\ (Recorded(s) /\ PathOf(s) \notin loaded_paths) => pc[s] = "done" /\ ~UnitFaulted(s)

\* a run that ended with one section failed and another recorded
C7_Witness ==
    /\ main_pc = "finished"
    /\ \E s, t \in Sections :
          /\ pc[s] = "error"
          /\ pc[t] = "done"
          /\ Recorded(t)
          /\ \E k \in DOMAIN call_log[t] : call_log[t][k].resp = "fault"

\* batch k of section s was sent and answered: as one request by
\* OllamaTranslator, as one request for each unit by OpenAICompatTranslator
BatchSent(s, k) ==
    LET answered == {call_log[s][j].texts : j \in DOMAIN call_log[s]}
    IN IF engine = "ollama" THEN batches[s][k] \in answered
       ELSE \A u \in Range(batches[s][k]) : <<u>> \in answered

\* C8: a section is recorded as complete only when all of its batches were
\* sent and answered and every unit has its translation inserted.
C8_RecordedAfterAllBatches ==
    \A s \in Sections :
        (Recorded(s) /\ PathOf(s) \notin loaded_paths) =>
            /\ pc[s] = "done"
            /\ batch_idx[s] = Len(batches[s])
            /\ stack[s] = <<>>
            /\ requests[s] = <<>>
            /\ \A k \in DOMAIN batches[s] : BatchSent(s, k)
            /\ InsertedBlocks(s) = [i \in 1..UnitsOf(s) |-> i - 1]

\* a section of two batches or more is recorded while another is still at work
C8_Witness ==
    \E s, t \in Sections :
        /\ Recorded(s)
        /\ Len(batches[s]) >= 2
        /\ pc[t] = "call"

\* ------------------------------------------------------- a resumed run
\* the entries of a set of paths, in increasing order of path
RECURSIVE Ascending(_)
Ascending(P) ==
    IF P = {} THEN <<>>
    ELSE LET m == CHOOSE x \in P : \A y \in P : x <= y
         IN <<[path |-> m]>> \o Ascending(P \ {m})

\* what run() may find as progress.json: nothing, something unreadable,
\* something of another structure, or a list naming any paths, those of the
\* document and one it does not have: each of them once, in increasing
\* order, or at most MaxListed of them in any order, also one twice
ProgressFiles ==
    {AbsentFile, MalformedFile, BadPathFile, NotAListFile}
        \cup {SavedProgress(Ascending(P)) : P \in SUBSET AllPaths}
        \cup {SavedProgress(entries) :
                 entries \in SeqsUpTo({[path |-> p] : p \in AllPaths}, MaxListed)}

\* a document of NumSections sections of one unit each
ResumeDocument == [s \in 1..NumSections |-> [path |-> s, lens |-> Ones(1)]]

\* A run over what is on disk: any progress file, and a cache file for any
\* of the paths (a listed path may lack its cache file: run() tests
\* cache_file.exists() for every entry it loaded).
InitResume ==
    \E eng \in Engines, file \in ProgressFiles, cached \in SUBSET AllPaths,
       conc \in 1..NumSections :
        /\ Configured(eng, TRUE)
        /\ Entered(ResumeDocument, 1, 1, conc, file, cached)

SpecResume == InitResume /\ [][NextUnitBatches]_vars

\* C9: a section listed in the record loaded at startup gets no external
\* call: its task only delivers one skipped event; every call is for a
\* section that the loaded record does not list.
C9_CompletedNotDispatched ==
    \A s \in Sections :
        /\ PathOf(s) \in loaded_paths =>
              /\ Calls(s) = 0
              /\ stack[s] = <<>>
              /\ pc[s] \in {"pending", "skipped"}
              /\ events[s] \in {<<>>, <<Event("skipped", 0, 0)>>}
              /\ main_pc = "finished" => pc[s] = "skipped"
        /\ Calls(s) > 0 => PathOf(s) \notin loaded_paths

\* a finished run that skipped a listed section and called for an unlisted one
C9_Witness ==
    /\ main_pc = "finished"
    /\ \E s, t \in Sections :
          /\ PathOf(s) \in loaded_paths
          /\ pc[s] = "skipped"
          /\ PathOf(t) \notin loaded_paths
          /\ Calls(t) > 0
          /\ pc[t] = "done"

\* C10: the output of a finished run holds, for every section the loaded
\* record lists, the content of that section's cache file.
C10_Original ==
    main_pc = "finished" =>
        \A s \in Sections :
            PathOf(s) \in loaded_paths => output[s] = CachedContent(PathOf(s))

\* A run in which a section can fail with nothing loaded: a fresh run, or a
\* run over a progress file whose "completed" is no list; every unit is a
\* batch of its own.
InitFailing ==
    \E eng \in Engines, doc \in Documents, conc \in 1..NumSections,
       file \in {AbsentFile, NotAListFile} :
        /\ Configured(eng, TRUE)
        /\ Entered(doc, 1, MaxDocUnits, conc, file, {})

SpecFailing == InitFailing /\ [][NextUnitBatches]_vars

\* ------------------------------------------------- a run that goes on
\* asyncio.gather runs every section task as long as it can take a step, and
\* the capability answers every request (with a text or with a fault).
Fairness == WF_vars(NextUnitBatches)

SpecFair == InitFailing /\ [][NextUnitBatches]_vars /\ Fairness

\* some section of the run failed
SomeFailed == \E s \in Sections : pc[s] = "error"

\* every section was attempted and ended, and the output was packaged
AllAttemptedAndPacked ==
    /\ main_pc = "finished"
    /\ DOMAIN output = Sections
    /\ \A t \in Sections :
          /\ pc[t] \in Terminal
          /\ (PathOf(t) \notin loaded_paths /\ UnitsOf(t) > 0) => Calls(t) > 0
          /\ output[t] = Packed(t)

\* C11: after a section failed the run goes on: the output is packaged only
\* when every section has ended, and it is always packaged in the end, every
\* other section having been attempted and having reached its terminal state.
C11_FailureDoesNotAbort ==
    /\ [](main_pc = "finished" => AllAttemptedAndPacked)
    /\ SomeFailed ~> AllAttemptedAndPacked

\* one section at a time: a section failed, the other one was translated
\* and the output was packaged
C11_Witness ==
    /\ main_pc = "finished"
    /\ chapter_concurrency = 1
    /\ \E s, t \in Sections :
          /\ pc[s] = "error"
          /\ pc[t] = "done"
          /\ Calls(t) > 0
          /\ output[t] = TranslatedContent(PathOf(t), inserted[t])

\* C12: a section that failed in this run and has no cached result is
\* packaged as its original content, whatever was inserted into its tree
\* before the failure; a failed section that has one (its task failed after
\* it wrote the cache file) is packaged as that result.
C12_FailedKeepsOriginal ==
    \A s \in Sections :
        (main_pc = "finished" /\ pc[s] = "error") =>
            IF cache_files[PathOf(s)] = NoFile
            THEN /\ output[s] = OriginalContent(PathOf(s))
                 /\ output[s] # NoFile
                 /\ output[s] # TranslatedContent(PathOf(s), inserted[s])
            ELSE /\ ~UnitFaulted(s)
                 /\ output[s] = cache_files[PathOf(s)]

\* a section failed after the translations of its first batch were inserted
C12_Witness ==
    /\ main_pc = "finished"
    /\ \E s \in Sections :
          /\ pc[s] = "error"
          /\ batch_idx[s] >= 1
          /\ inserted[s] # <<>>

\* ------------------------------------------------ the gate and the lock
\* the sections whose task is inside "async with semaphore" and translating
Holders == {s \in Sections : pc[s] \in {"tr_wait", "call", "finishing", "critical"}}

\* C13: once the gate exists, its free permits and the sections at work add
\* up to the configured size: at most chapter_concurrency sections are at
\* work, each of them took a permit, and a section that ended holds none.
C13_GateBound ==
    main_pc # "start" =>
        /\ semaphore >= 0
        /\ Cardinality(Holders) + semaphore = chapter_concurrency
        /\ Cardinality(Holders) <= chapter_concurrency

\* a gate of fewer permits than sections is used up: one section waits
C13_Witness ==
    /\ chapter_concurrency < Len(chapters)
    /\ semaphore = 0
    /\ Cardinality(Holders) = chapter_concurrency
    /\ \E s, t \in Sections : pc[s] = "call" /\ pc[t] = "pending" /\ UnitsOf(t) > 0

\* the sections whose task is inside "async with entries_lock"
InCritical == {s \in Sections : pc[s] = "critical"}

\* the files and lists a finished section is recorded in
RecordState == <<cache_files, completed_entries, completed_paths, progress_file>>

\* the record is in use: tasks are running, or the run kept it for a failure
RecordKept == main_pc = "gather" \/ (main_pc = "finished" /\ error_count > 0)

\* C14: at most one section task is inside the critical section, and it is
\* the holder of the lock; while tasks run, the cache files, the completed
\* list, the path set and the progress file change only in a step of the
\* task inside it; the progress file, once written, equals the completed
\* list, and every section that completed is in the list, the set and the
\* file and has its cache file.
C14_WritesSerialized ==
    /\ [](/\ Cardinality(InCritical) <= 1
          /\ InCritical = (IF entries_lock = 0 THEN {} ELSE {entries_lock})
          /\ (RecordKept /\ completed_entries # <<>>) =>
                 progress_file = SavedProgress(completed_entries)
          /\ RecordKept =>
                 \A s \in Sections : pc[s] = "done" =>
                     /\ [path |-> PathOf(s)] \in Range(completed_entries)
                     /\ [path |-> PathOf(s)] \in Range(progress_file.completed)
                     /\ PathOf(s) \in completed_paths
                     /\ cache_files[PathOf(s)] = NewContent(s))
    /\ [][(main_pc = "gather" /\ main_pc' = "gather" /\ RecordState' # RecordState) =>
             \E s \in Sections :
                 /\ entries_lock = s
                 /\ pc[s] = "critical"
                 /\ pc'[s] = "done"
                 /\ entries_lock' = 0]_vars

\* a section is inside the critical section while another, done with its
\* batches, waits for the lock
C14_Witness ==
    \E s, t \in Sections :
        /\ pc[s] = "critical"
        /\ pc[t] = "finishing"
        /\ UnitsOf(s) > 0
        /\ UnitsOf(t) > 0

\* ------------------------------------- a document with a repeated section
\* parse() makes one chapter per spine entry and does not look for repeats:
\* a spine that names a manifest item twice gives two sections of one path.
SpineDocuments ==
    {[s \in 1..NumSections |-> [path |-> paths[s], lens |-> Ones(1)]] :
        paths \in [1..NumSections -> 1..NumSections]}

\* A fresh run over such a document.
InitSpine ==
    \E eng \in Engines, doc \in SpineDocuments, conc \in 1..NumSections :
        /\ Configured(eng, TRUE)
        /\ Entered(doc, 1, 1, conc, AbsentFile, {})

SpecSpine == InitSpine /\ [][NextUnitBatches]_vars

\* C15: a section is skipped exactly when the record read at startup lists
\* it; what other section tasks record during the run plays no part.
C15_Original ==
    \A s \in Sections :
        /\ pc[s] = "skipped" => PathOf(s) \in loaded_paths
        /\ (pc[s] # "pending" /\ PathOf(s) \in loaded_paths) => pc[s] = "skipped"

\* ------------------------------------------------- loading the progress file
\* C16: while the progress file is as run() found it and is not a saved
\* list (it is absent or malformed), the run is not aborted, what is loaded
\* is the empty list and no section is skipped.
C16_Original ==
    (progress_file.state # "saved" /\ main_pc # "finished") =>
        /\ main_pc # "crashed"
        /\ main_pc = "gather" =>
              /\ loaded_paths = {}
              /\ entries_is_list
              /\ completed_entries = <<>>
              /\ \A s \in Sections : pc[s] # "skipped"

\* ------------------------------------------------- the record's entries
\* the sections that completed in this run
DoneSections == {s \in Sections : pc[s] = "done"}

\* run() is past the load and did not crash
Loaded == main_pc \in {"gather", "finished"}

\* the entries of the list that are not the entry of a section completed in
\* this run: the entries that were loaded, a path listed twice counted twice
LoadedLen == Len(completed_entries) - Cardinality(DoneSections)

\* C17 as stated: the paths of the record, in memory once loaded and in the
\* file once this run wrote it, are paths of sections of the document.
C17_Original ==
    /\ Loaded => EntryPaths(completed_entries) \subseteq DocPaths
    /\ (RecordKept /\ DoneSections # {}) =>
          EntryPaths(progress_file.completed) \subseteq DocPaths

\* C17 as the code has it: everything the file lists is loaded and kept,
\* also an entry of a path no section has; such an entry causes no failure,
\* no call and no change of the output, and it is written back with every
\* save; what the run itself appends are paths of sections of the document.
C17_UnknownEntryKept ==
    /\ (main_pc = "gather" /\ DoneSections = {} /\ progress_file.state = "saved") =>
          completed_entries = progress_file.completed
    /\ Loaded =>
          /\ loaded_paths \subseteq EntryPaths(completed_entries)
          /\ EntryPaths(completed_entries) = loaded_paths \cup {PathOf(s) : s \in DoneSections}
          /\ \A k \in DOMAIN completed_entries :
                k > LoadedLen => completed_entries[k].path \in DocPaths
          /\ error_count = Cardinality({s \in Sections : pc[s] = "error"})
          /\ \A s \in Sections :
                (pc[s] = "error" /\ progress_file.state = "saved") => UnitFaulted(s)
    /\ (RecordKept /\ DoneSections # {}) =>
          EntryPaths(progress_file.completed) = EntryPaths(completed_entries)
    /\ main_pc = "finished" =>
          \A s \in Sections : output[s].path = PathOf(s)

\* the file listed a path no section has; a section completed and the file
\* written for it still lists that path
C17_Witness ==
    /\ main_pc = "gather"
    /\ 0 \in loaded_paths
    /\ 0 \notin DocPaths
    /\ DoneSections # {}
    /\ [path |-> 0] \in Range(progress_file.completed)
    /\ cache_files[0] = CachedContent(0)

\* the task of section s came back from _translate_chapter (for a section
\* with units the done event was delivered) and has ended
TranslationCompleted(s) ==
    /\ pc[s] \in {"done", "error"}
    /\ UnitsOf(s) = 0 \/ \E j \in DOMAIN events[s] : events[s][j].status = "done"

\* C18 as stated: the list starts with the loaded entries, in the order of the
\* file, followed by one entry for each section completed in this run; the
\* progress file is rewritten after every section that completes and then is
\* the whole list, so it lists every section completed so far.
C18_Original ==
    /\ Loaded =>
          /\ LoadedLen >= Cardinality(loaded_paths)
          /\ {completed_entries[k].path : k \in 1..LoadedLen} = loaded_paths
          /\ {completed_entries[k].path : k \in (LoadedLen + 1)..Len(completed_entries)}
                 = {PathOf(s) : s \in DoneSections}
          /\ (RecordKept /\ DoneSections # {}) =>
                 /\ progress_file.state = "saved"
                 /\ progress_file.completed = completed_entries
    /\ RecordKept =>
          \A s \in Sections :
              TranslationCompleted(s) =>
                  /\ progress_file.state = "saved"
                  /\ [path |-> PathOf(s)] \in Range(progress_file.completed)

\* ------------------------------------------------------- progress events
\* the positions in the events of section s that hold a terminal event
TerminalEvents(s) == {j \in DOMAIN events[s] : events[s][j].status \in Terminal}

\* the translating events of section s
TranslatingEvents(s) == {j \in DOMAIN events[s] : events[s][j].status = "translating"}

\* the batches of section s that were started: those handled and the one
\* the task is at, or was at when it failed
BatchesStarted(s) ==
    batch_idx[s] + (IF pc[s] \in {"tr_wait", "call", "error"} THEN 1 ELSE 0)

\* C19: a section gets at most one terminal event, as its last event; a
\* section that ended got exactly one, of the status it ended with (done
\* also for a section without units); there is one translating event per
\* batch started.
C19_Original ==
    \A s \in Sections :
        /\ Cardinality(TerminalEvents(s)) <= 1
        /\ TerminalEvents(s) \subseteq {Len(events[s])}
        /\ pc[s] \in Terminal =>
              /\ Cardinality(TerminalEvents(s)) = 1
              /\ events[s][Len(events[s])].status = pc[s]
        /\ Cardinality(TranslatingEvents(s)) = BatchesStarted(s)

\* ------------------------------------------------------ the placeholder codec
\* core/epub/extractor.py  serialize_to_placeholders / restore_from_placeholders
\*
\* A string is a sequence of tokens, each token standing for the characters
\* it names: a plain character, a placeholder, a tag, or an escaped token
\* (the same characters with < and > written as entities).  A text node
\* holds its decoded characters, so it may hold any token as text.
Ch(c) == [k |-> "char", c |-> c]
OpenPh(idx) == [k |-> "open", id |-> idx]
ClosePh(idx) == [k |-> "close", id |-> idx]
OtPh(idx) == [k |-> "ot", id |-> idx]
StartTag(name, attrs) == [k |-> "stag", name |-> name, attrs |-> attrs]
EndTag(name) == [k |-> "etag", name |-> name]
VoidTag(name, attrs) == [k |-> "vtag", name |-> name, attrs |-> attrs]
Escaped(tok) == [k |-> "escaped", of |-> tok]

\* the nodes of a parsed tree: NavigableString and Tag
TextNode(s) == [type |-> "text", text |-> s]
Element(name, attrs, kids) ==
    [type |-> "tag", name |-> name, attrs |-> attrs, kids |-> kids]

\* extractor.py:29 and 32-35
OPAQUE_INLINE == {"sup", "sub", "br", "img", "wbr"}
TRANSPARENT_INLINE ==
    {"em", "strong", "b", "i", "u", "span", "a", "small", "big",
     "abbr", "cite", "q", "s", "del", "ins"}

\* the elements that are written without content and end tag
VoidElements == {"br", "img", "wbr"}

\* an attribute value as written into a tag: & becomes an entity
EscapeAttr(v) == IF v = "u&v" THEN "u&amp;v" ELSE v
EscapeAttrs(attrs) ==
    [j \in DOMAIN attrs |-> [key |-> attrs[j].key, value |-> EscapeAttr(attrs[j].value)]]

\* a text as written into markup: a token with < or > in it is escaped
EscapeText(s) ==
    [j \in DOMAIN s |->
        IF s[j].k \in {"open", "close", "stag", "etag", "vtag"} THEN Escaped(s[j])
        ELSE s[j]]

\* extractor.py:136 and 150  str(node) of the html.parser tree of line 159:
\* only br, img and wbr are written as one tag, any other tag without
\* content as a start tag and an end tag
RECURSIVE Markup(_), MarkupAll(_)
Markup(node) ==
    IF node.type = "text" THEN EscapeText(node.text)
    ELSE IF node.name \in VoidElements
    THEN <<VoidTag(node.name, EscapeAttrs(node.attrs))>>
    ELSE <<StartTag(node.name, EscapeAttrs(node.attrs))>>
            \o MarkupAll(node.kids) \o <<EndTag(node.name)>>
MarkupAll(nodes) ==
    IF nodes = <<>> THEN <<>> ELSE Markup(Head(nodes)) \o MarkupAll(Tail(nodes))

\* extractor.py:82  tag.decode_contents() of the XML tree: a tag without
\* content is written as one self-closing tag, whatever its name
RECURSIVE decode_node(_), decode_contents(_)
decode_node(node) ==
    IF node.type = "text" THEN EscapeText(node.text)
    ELSE IF node.kids = <<>>
    THEN <<VoidTag(node.name, EscapeAttrs(node.attrs))>>
    ELSE <<StartTag(node.name, EscapeAttrs(node.attrs))>>
            \o decode_contents(node.kids) \o <<EndTag(node.name)>>
decode_contents(nodes) ==
    IF nodes = <<>> THEN <<>>
    ELSE decode_node(Head(nodes)) \o decode_contents(Tail(nodes))

\* str.strip(): the text without white space at its ends
RECURSIVE Strip(_)
Strip(text) ==
    IF text = <<>> THEN <<>>
    ELSE IF Head(text) = Ch(" ") THEN Strip(Tail(text))
    ELSE IF text[Len(text)] = Ch(" ") THEN Strip(SubSeq(text, 1, Len(text) - 1))
    ELSE text

\* a test that takes no content for empty
BlankNever(s) == FALSE

\* extractor.py:145  not inner.strip(): nothing but white space
Blank(s) == \A j \in DOMAIN s : s[j] = Ch(" ")

\* extractor.py:42-47  _SavedTag
SavedTag(tag_name, attrs, opaque, original_html) ==
    [tag_name |-> tag_name, attrs |-> attrs, opaque |-> opaque,
     original_html |-> original_html]

\* extractor.py:121-157  walk, with counter and saved threaded through:
\* st = [out, saved, counter]
RECURSIVE Walk(_, _), WalkAll(_, _)
Walk(node, st) ==
    IF node.type = "text" THEN [st EXCEPT !.out = @ \o node.text]
    ELSE IF node.name \in OPAQUE_INLINE
    THEN [out |-> st.out \o <<OtPh(st.counter)>>,
          saved |-> (st.counter :> SavedTag(node.name, node.attrs, TRUE, Markup(node)))
                        @@ st.saved,
          counter |-> st.counter + 1]
    ELSE IF node.name \in TRANSPARENT_INLINE
    THEN LET r == WalkAll(node.kids, [st EXCEPT !.out = <<>>])
             inner == r.out
             idx == r.counter
         IN IF Blank(inner)
            THEN [out |-> st.out \o <<OtPh(idx)>>,
                  saved |-> (idx :> SavedTag(node.name, node.attrs, TRUE, Markup(node)))
                                @@ r.saved,
                  counter |-> idx + 1]
            ELSE [out |-> st.out \o <<OpenPh(idx)>> \o inner \o <<ClosePh(idx)>>,
                  saved |-> (idx :> SavedTag(node.name, node.attrs, FALSE, <<>>))
                                @@ r.saved,
                  counter |-> idx + 1]
    ELSE WalkAll(node.kids, st)
WalkAll(nodes, st) ==
    IF nodes = <<>> THEN st ELSE WalkAll(Tail(nodes), Walk(Head(nodes), st))

\* a counter that goes on where the unit before stopped
FirstIdContinues == Cardinality(UNION {DOMAIN tag_maps[n] : n \in DOMAIN tag_maps})

\* extractor.py:111  counter = [0]: the first id of every call
FirstId == 0

\* extractor.py:94-162  serialize_to_placeholders: [out |-> marked text, saved, counter]
serialize_to_placeholders(forest) ==
    WalkAll(forest, [out |-> <<>>, saved |-> <<>>, counter |-> FirstId])

\* str.index / "in": the first position of a token in a string, 0 if none
IndexOf(s, tok) ==
    IF \E j \in DOMAIN s : s[j] = tok
    THEN CHOOSE j \in DOMAIN s : s[j] = tok /\ \A i \in 1..(j - 1) : s[i] # tok
    ELSE 0

\* str.replace(old, new, 1)
ReplaceFirst(s, tok, new) ==
    LET j == IndexOf(s, tok)
    IN IF j = 0 THEN s ELSE SubSeq(s, 1, j - 1) \o new \o SubSeq(s, j + 1, Len(s))

\* extractor.py:203-213  _build_open_tag
BuildOpenTag(tag_name, attrs) == StartTag(tag_name, EscapeAttrs(attrs))

\* a round that gives up on a pair without its closing marker and cuts the
\* text where the pair opens
RestoreStepCutsAtOpen(result, idx, tag) ==
    IF tag.opaque THEN ReplaceFirst(result, OtPh(idx), tag.original_html)
    ELSE LET start == IndexOf(result, OpenPh(idx))
             end == IndexOf(result, ClosePh(idx))
         IN IF start # 0 /\ end # 0 /\ start < end
            THEN SubSeq(result, 1, start - 1)
                    \o <<BuildOpenTag(tag.tag_name, tag.attrs)>>
                    \o SubSeq(result, start + 1, end - 1)
                    \o <<EndTag(tag.tag_name)>>
                    \o SubSeq(result, end + 1, Len(result))
            ELSE IF start # 0 THEN SubSeq(result, 1, start - 1)
            ELSE result

\* extractor.py:176-197  one round of the loop of restore_from_placeholders
RestoreStep(result, idx, tag) ==
    IF tag.opaque THEN ReplaceFirst(result, OtPh(idx), tag.original_html)
    ELSE LET start == IndexOf(result, OpenPh(idx))
             end == IndexOf(result, ClosePh(idx))
         IN IF start # 0 /\ end # 0 /\ start < end
            THEN SubSeq(result, 1, start - 1)
                    \o <<BuildOpenTag(tag.tag_name, tag.attrs)>>
                    \o SubSeq(result, start + 1, end - 1)
                    \o <<EndTag(tag.tag_name)>>
                    \o SubSeq(result, end + 1, Len(result))
            ELSE ReplaceFirst(ReplaceFirst(result, OpenPh(idx), <<>>), ClosePh(idx), <<>>)

\* extractor.py:175  sorted(saved.keys(), reverse=True)
RECURSIVE SortedReverse(_)
SortedReverse(ids) ==
    IF ids = {} THEN <<>>
    ELSE LET idx == CHOOSE i \in ids : \A j \in ids : j <= i
         IN <<idx>> \o SortedReverse(ids \ {idx})

\* extractor.py:175-197  the loop over the ids in that order
RECURSIVE RestoreLoop(_, _, _)
RestoreLoop(result, order, map) ==
    IF order = <<>> THEN result
    ELSE RestoreLoop(RestoreStep(result, Head(order), map[Head(order)]),
                     Tail(order), map)

\* a cleanup that cuts the text at the first placeholder left in it
StripFromFirstMarker(s) ==
    IF \E j \in DOMAIN s : s[j].k \in {"open", "close", "ot"}
    THEN SubSeq(s, 1, (CHOOSE j \in DOMAIN s :
                          /\ s[j].k \in {"open", "close", "ot"}
                          /\ \A i \in 1..(j - 1) : s[i].k \notin {"open", "close", "ot"}) - 1)
    ELSE s

\* extractor.py:38 and 200  _PH_RE.sub("", result)
StripPlaceholders(s) == SelectSeq(s, LAMBDA tok : tok.k \notin {"open", "close", "ot"})

\* extractor.py:165-200  restore_from_placeholders
restore_from_placeholders(text, map) ==
    IF DOMAIN map = {} THEN text
    ELSE StripPlaceholders(RestoreLoop(text, SortedReverse(DOMAIN map), map))

\* the texts of the inner markup: a letter, white space, and texts whose
\* characters read like a tag ("&lt;em&gt;" in the source) or like a placeholder
TextOptions == {<<Ch("a")>>, <<Ch(" ")>>, <<StartTag("em", <<>>)>>, <<OtPh(0)>>}

\* the inline elements of the inner markup, of both vocabularies
ElementKinds ==
    {[name |-> "em", attrs |-> <<>>],
     [name |-> "a", attrs |-> <<[key |-> "href", value |-> "u&v"]>>],
     [name |-> "sup", attrs |-> <<>>]}

\* the trees of exactly n nodes and the forests of exactly n nodes without
\* two texts in a row (the parser joins them)
RECURSIVE TreesOf(_), ForestsOf(_)
TreesOf(n) ==
    IF n = 0 THEN {}
    ELSE (IF n = 1
          THEN {TextNode(s) : s \in TextOptions} \cup {Element("br", <<>>, <<>>)}
          ELSE {})
         \cup {Element(e.name, e.attrs, kids) : e \in ElementKinds, kids \in ForestsOf(n - 1)}
ForestsOf(n) ==
    IF n = 0 THEN {<<>>}
    ELSE UNION {{h \in {<<tr>> \o f : tr \in TreesOf(k), f \in ForestsOf(n - k)} :
                    ~(Len(h) >= 2 /\ h[1].type = "text" /\ h[2].type = "text")} :
                k \in 1..n}

\* the inner markups of at most MaxNodes nodes
Markups == UNION {ForestsOf(n) : n \in 1..MaxNodes}

\* the units that follow the first one: the inner markups of one or two nodes
FollowingUnits == ForestsOf(1) \cup ForestsOf(2)

\* The unit's markup is encoded.
Encode ==
    /\ codec_pc = "raw"
    /\ LET r == serialize_to_placeholders(inner_html)
       IN /\ marked_text' = r.out
          /\ saved' = r.saved
    /\ codec_pc' = "encoded"
    /\ UNCHANGED <<inner_html, translated, restored, edit, tag_maps>>
    /\ UNCHANGED <<pipeline_vars, parse_vars, extract_vars>>

\* extractor.py:38  _PH_RE: the tokens that read as a placeholder
IsMarker(tok) == tok.k \in {"open", "close", "ot"}

\* the positions of a text that hold a placeholder
MarkerPositions(s) == {j \in DOMAIN s : IsMarker(s[j])}

\* a text without its token at position j, with a token put in after
\* position j, and with the tokens at positions i and j exchanged
RemoveAt(s, j) == SubSeq(s, 1, j - 1) \o SubSeq(s, j + 1, Len(s))
InsertAt(s, j, tok) == SubSeq(s, 1, j) \o <<tok>> \o SubSeq(s, j + 1, Len(s))
Exchange(s, i, j) == [s EXCEPT ![i] = s[j], ![j] = s[i]]

\* ollama.py:103 and base.py:72 (openai_compat.py:53): what translate_batch
\* hands back for a unit is the text the service wrote without the white
\* space at its ends
Answer(text) == Strip(text)

\* the placeholders the service can write: those of the ids of the map and
\* of one id the map does not have
Writable(map) ==
    LET ids == DOMAIN map \cup {Cardinality(DOMAIN map)}
    IN {OpenPh(i) : i \in ids} \cup {ClosePh(i) : i \in ids} \cup {OtPh(i) : i \in ids}

\* The service writes the marked text as it got it.
ReturnUnchanged ==
    /\ codec_pc = "encoded"
    /\ translated' = Answer(marked_text)
    /\ edit' = [kind |-> "none"]
    /\ codec_pc' = "returned"
    /\ UNCHANGED <<inner_html, marked_text, saved, restored, tag_maps>>
    /\ UNCHANGED <<pipeline_vars, parse_vars, extract_vars>>

\* The service writes the text without one of its placeholders.
ReturnDropped ==
    /\ codec_pc = "encoded"
    /\ \E j \in MarkerPositions(marked_text) :
          /\ translated' = Answer(RemoveAt(marked_text, j))
          /\ edit' = [kind |-> "drop", tok |-> marked_text[j], at |-> j]
    /\ codec_pc' = "returned"
    /\ UNCHANGED <<inner_html, marked_text, saved, restored, tag_maps>>
    /\ UNCHANGED <<pipeline_vars, parse_vars, extract_vars>>

\* The service writes the text with one placeholder more: a second copy
\* of one it got, or one of an id it made up.
ReturnInserted ==
    /\ codec_pc = "encoded"
    /\ \E tok \in Writable(saved), j \in 0..Len(marked_text) :
          /\ translated' = Answer(InsertAt(marked_text, j, tok))
          /\ edit' = [kind |-> "insert", tok |-> tok, at |-> j]
    /\ codec_pc' = "returned"
    /\ UNCHANGED <<inner_html, marked_text, saved, restored, tag_maps>>
    /\ UNCHANGED <<pipeline_vars, parse_vars, extract_vars>>

\* The service writes the text with two of its placeholders exchanged.
ReturnReordered ==
    /\ codec_pc = "encoded"
    /\ \E i \in MarkerPositions(marked_text), j \in MarkerPositions(marked_text) :
          /\ i < j
          /\ marked_text[i] # marked_text[j]
          /\ translated' = Answer(Exchange(marked_text, i, j))
          /\ edit' = [kind |-> "reorder", tok |-> marked_text[i], at |-> j]
    /\ codec_pc' = "returned"
    /\ UNCHANGED <<inner_html, marked_text, saved, restored, tag_maps>>
    /\ UNCHANGED <<pipeline_vars, parse_vars, extract_vars>>

\* The returned text is decoded with the unit's map.
Decode ==
    /\ codec_pc = "returned"
    /\ restored' = restore_from_placeholders(translated, saved)
    /\ codec_pc' = "decoded"
    /\ UNCHANGED <<inner_html, marked_text, saved, translated, edit, tag_maps>>
    /\ UNCHANGED <<pipeline_vars, parse_vars, extract_vars>>

NextCodec ==
    \/ Encode
    \/ ReturnUnchanged
    \/ ReturnDropped
    \/ ReturnInserted
    \/ ReturnReordered
    \/ Decode

\* A unit is handed to the codec; the pipeline stands still.
InitCodec ==
    /\ Configured("ollama", TRUE)
    /\ PipelineEntered(<<>>, 1, 1, 1, AbsentFile, {})
    /\ ParseIdle
    /\ ExtractIdle
    /\ inner_html \in Markups
    /\ marked_text = <<>>
    /\ saved = <<>>
    /\ translated = <<>>
    /\ restored = <<>>
    /\ edit = [kind |-> "none"]
    /\ tag_maps = <<>>
    /\ codec_pc = "raw"

SpecCodec == InitCodec /\ [][NextCodec]_vars

\* ------------------------------------------------ the units of one section
\* core/pipeline.py  _translate_chapter, lines 190-196
\*
\* pipeline.py:194  strip_inline_attrs(b.inner_html).  extractor.py defines
\* no function of this name; the encoder is taken from the specification
\* (sections 3 and 4.2: one map per unit, the ids assigned in document order
\* from 0 during encoding), which is what serialize_to_placeholders does.
strip_inline_attrs(forest) == serialize_to_placeholders(forest)

\* pipeline.py:193-196  one round of the loop over the blocks of a section:
\* the unit is encoded and its map is appended to tag_maps.
StripUnit ==
    /\ codec_pc = "raw"
    /\ LET r == strip_inline_attrs(inner_html)
       IN /\ marked_text' = r.out
          /\ saved' = r.saved
          /\ tag_maps' = Append(tag_maps, r.saved)
    /\ codec_pc' = "encoded"
    /\ UNCHANGED <<inner_html, translated, restored, edit>>
    /\ UNCHANGED <<pipeline_vars, parse_vars, extract_vars>>

\* pipeline.py:193  the loop comes to the next block of the section; the maps
\* of the blocks before it stay in tag_maps.
NextUnit ==
    /\ codec_pc = "encoded"
    /\ Len(tag_maps) < MaxEncoded
    /\ inner_html' \in FollowingUnits
    /\ marked_text' = <<>>
    /\ saved' = <<>>
    /\ codec_pc' = "raw"
    /\ UNCHANGED <<tag_maps, translated, restored, edit>>
    /\ UNCHANGED <<pipeline_vars, parse_vars, extract_vars>>

NextUnits ==
    \/ StripUnit
    \/ NextUnit

\* pipeline.py:191-192  before the loop: no unit encoded, tag_maps empty
InitUnits ==
    /\ Configured("ollama", TRUE)
    /\ PipelineEntered(<<>>, 1, 1, 1, AbsentFile, {})
    /\ ParseIdle
    /\ ExtractIdle
    /\ inner_html \in FollowingUnits
    /\ marked_text = <<>>
    /\ saved = <<>>
    /\ translated = <<>>
    /\ restored = <<>>
    /\ edit = [kind |-> "none"]
    /\ tag_maps = <<>>
    /\ codec_pc = "raw"

SpecUnits == InitUnits /\ [][NextUnits]_vars

\* a markup with every tag that has no content written as a start tag and
\* an end tag: two markups of the same elements, nesting, attributes and
\* text are then the same string
RECURSIVE Expanded(_)
Expanded(s) ==
    IF s = <<>> THEN <<>>
    ELSE (IF Head(s).k = "vtag"
          THEN <<StartTag(Head(s).name, Head(s).attrs), EndTag(Head(s).name)>>
          ELSE <<Head(s)>>) \o Expanded(Tail(s))

\* C20: decoding the unchanged marked text with the map of encode gives
\* back the markup that was encoded, the inner_html of extract_blocks: the
\* same elements, nesting, attributes and text.
C20_Original ==
    (codec_pc = "decoded" /\ edit.kind = "none" /\ translated = marked_text) =>
        Expanded(restored) = Expanded(decode_contents(inner_html))

\* ------------------------------------------- decoding a text that was changed
\* a is b with some of b's tokens left out
RECURSIVE SubseqFrom(_, _, _, _)
SubseqFrom(a, i, b, j) ==
    IF i > Len(a) THEN TRUE
    ELSE IF j > Len(b) THEN FALSE
    ELSE IF a[i] = b[j] THEN SubseqFrom(a, i + 1, b, j + 1)
    ELSE SubseqFrom(a, i, b, j + 1)
IsSubseq(a, b) == SubseqFrom(a, 1, b, 1)

\* the tokens of a text that are no placeholders
NonMarkers(s) == SelectSeq(s, LAMBDA tok : ~IsMarker(tok))

\* the tokens of the marked text inside the pair of id idx
Inside(s, idx) == SubSeq(s, IndexOf(s, OpenPh(idx)) + 1, IndexOf(s, ClosePh(idx)) - 1)

\* the service left out the closing marker of a pair of the map
LostClose ==
    /\ edit.kind = "drop"
    /\ edit.tok.k = "close"
    /\ edit.tok.id \in DOMAIN saved
    /\ ~saved[edit.tok.id].opaque

\* the white space the service's text starts with, which the answer lacks
LeadingBlanks(text) ==
    IF Blank(text) THEN Len(text)
    ELSE (CHOOSE j \in DOMAIN text :
            text[j] # Ch(" ") /\ \A i \in 1..(j - 1) : text[i] = Ch(" ")) - 1

\* the returned text with the marker it lost back at its place
WithMarkerPresent ==
    LET lead == LeadingBlanks(RemoveAt(marked_text, edit.at))
        after == edit.at - 1 - lead
    IN InsertAt(translated, IF after > Len(translated) THEN Len(translated) ELSE after,
                edit.tok)

\* C21: decode has a result for a returned text without the closing marker
\* of one pair; the result holds the text inside that pair, and it is the
\* result of decoding the text with the marker present, less the two tags
\* of that pair: every other placeholder is restored the same.
C21_ClosingMarkerLost ==
    (codec_pc \in {"returned", "decoded"} /\ LostClose) =>
        LET idx == edit.tok.id
            full == restore_from_placeholders(WithMarkerPresent, saved)
            result == restore_from_placeholders(translated, saved)
        IN /\ IsSubseq(NonMarkers(Inside(WithMarkerPresent, idx)), result)
           /\ \E p \in DOMAIN full, q \in DOMAIN full :
                 /\ p < q
                 /\ full[p] = BuildOpenTag(saved[idx].tag_name, saved[idx].attrs)
                 /\ full[q] = EndTag(saved[idx].tag_name)
                 /\ result = RemoveAt(RemoveAt(full, q), p)
           /\ codec_pc = "decoded" => restored = result

\* the pair that lost its closing marker holds a text and another pair,
\* whose tags are in the result
C21_Witness ==
    /\ codec_pc = "decoded"
    /\ LostClose
    /\ \E j \in DOMAIN saved :
          /\ j # edit.tok.id
          /\ ~saved[j].opaque
          /\ OpenPh(j) \in Range(Inside(marked_text, edit.tok.id))
          /\ BuildOpenTag(saved[j].tag_name, saved[j].attrs) \in Range(restored)
          /\ Ch("a") \in Range(restored)

\* C22: decode has a result for a returned text in which a placeholder was
\* dropped, duplicated, made up or exchanged with another, and the tokens of
\* the returned text that are no placeholders are all in the result, in
\* their order.
C22_TextSurvives ==
    (codec_pc \in {"returned", "decoded"} /\ edit.kind # "none") =>
        LET result == restore_from_placeholders(translated, saved)
        IN /\ IsSubseq(NonMarkers(translated), result)
           /\ codec_pc = "decoded" => restored = result

\* the two markers of a pair came back exchanged, with a letter between
\* them: the result is the text without the pair's tags
C22_Witness ==
    /\ codec_pc = "decoded"
    /\ edit.kind = "reorder"
    /\ edit.tok.k = "open"
    /\ translated[edit.at] = edit.tok
    /\ \E j \in 1..(edit.at - 2) :
          /\ translated[j] = ClosePh(edit.tok.id)
          /\ translated[j + 1] = Ch("a")
    /\ Ch("a") \in Range(restored)
    /\ BuildOpenTag(saved[edit.tok.id].tag_name, saved[edit.tok.id].attrs)
           \notin Range(restored)

\* C23: the result of decode holds no placeholder, whatever text came back
\* and whatever the map holds.
C23_Original ==
    codec_pc = "decoded" => MarkerPositions(restored) = {}

\* ------------------------------------------------- the ids of the placeholders
\* the position in the marked text of the marker of id idx, of its opening
\* marker for a pair
MarkerAt(idx) ==
    IF saved[idx].opaque THEN IndexOf(marked_text, OtPh(idx))
    ELSE IndexOf(marked_text, OpenPh(idx))

\* the pair of id i has the marker of id j inside
Encloses(i, j) ==
    /\ ~saved[i].opaque
    /\ IndexOf(marked_text, OpenPh(i)) < MarkerAt(j)
    /\ MarkerAt(j) < IndexOf(marked_text, ClosePh(i))

\* decode handles id a before id b
HandledBefore(a, b) ==
    LET order == SortedReverse(DOMAIN saved)
    IN (CHOOSE k \in DOMAIN order : order[k] = a)
          < (CHOOSE k \in DOMAIN order : order[k] = b)

\* C24: the ids rise with the position of the elements in the unit, and
\* decode handles the id of an element before the id of the element that
\* encloses it.
C24_Original ==
    codec_pc \in {"encoded", "returned", "decoded"} =>
        \A i \in DOMAIN saved, j \in DOMAIN saved :
            /\ MarkerAt(i) < MarkerAt(j) => i < j
            /\ Encloses(i, j) => HandledBefore(j, i)

\* the text that walk copies into the marked text: the text nodes outside
\* opaque elements and outside transparent elements without content
RECURSIVE WalkedText(_), WalkedTextAll(_)
WalkedText(node) ==
    IF node.type = "text" THEN node.text
    ELSE IF node.name \in OPAQUE_INLINE THEN <<>>
    ELSE IF /\ node.name \in TRANSPARENT_INLINE
            /\ Blank(serialize_to_placeholders(node.kids).out)
    THEN <<>>
    ELSE WalkedTextAll(node.kids)
WalkedTextAll(nodes) ==
    IF nodes = <<>> THEN <<>>
    ELSE WalkedText(Head(nodes)) \o WalkedTextAll(Tail(nodes))

\* how often a token is in a text
Count(s, tok) == Cardinality({j \in DOMAIN s : s[j] = tok})

\* how often encode wrote a marker: its count in the marked text less its
\* count in the text of the unit
Emitted(tok) == Count(marked_text, tok) - Count(WalkedTextAll(inner_html), tok)

\* C25: after encode the ids of the map are 0..k-1; an opaque entry has one
\* [OT:N] marker and no pair, a transparent entry has one opening and one
\* closing marker, in that order, around content that is not empty, and no
\* [OT:N] marker; encode wrote no other marker.
C25_MarkersMatchMap ==
    codec_pc \in {"encoded", "returned", "decoded"} =>
        LET k == Cardinality(DOMAIN saved)
            opaque == {idx \in DOMAIN saved : saved[idx].opaque}
        IN /\ DOMAIN saved = 0..(k - 1)
           /\ \A idx \in DOMAIN saved :
                 IF saved[idx].opaque
                 THEN /\ Emitted(OtPh(idx)) = 1
                      /\ Emitted(OpenPh(idx)) = 0
                      /\ Emitted(ClosePh(idx)) = 0
                 ELSE /\ Emitted(OpenPh(idx)) = 1
                      /\ Emitted(ClosePh(idx)) = 1
                      /\ Emitted(OtPh(idx)) = 0
                      /\ IndexOf(marked_text, OpenPh(idx))
                            < IndexOf(marked_text, ClosePh(idx))
                      /\ \E tok \in Range(Inside(marked_text, idx)) : tok # Ch(" ")
           /\ Cardinality(MarkerPositions(marked_text))
                 - Cardinality(MarkerPositions(WalkedTextAll(inner_html)))
                 = Cardinality(opaque) + 2 * (k - Cardinality(opaque))

\* a unit with a transparent element around a text that reads like a
\* placeholder, and a transparent element without content, demoted to opaque
C25_Witness ==
    /\ codec_pc = "encoded"
    /\ Cardinality(DOMAIN saved) = 2
    /\ \E i \in DOMAIN saved, j \in DOMAIN saved :
          /\ ~saved[i].opaque
          /\ Inside(marked_text, i) = <<OtPh(0)>>
          /\ saved[j].opaque
          /\ saved[j].tag_name \in TRANSPARENT_INLINE

\* the ids of the map of the n-th unit encoded
IdsOf(n) == DOMAIN tag_maps[n]

Label(n) == [k |-> "label", n |-> n]

\* base.py:70, 74  a label of more digits than int() converts (4300 by
\* default): the pattern matches it and int() raises ValueError
LongLabel == [k |-> "longlabel"]

\* base.py:66  re.split: the positions of what the pattern matches
LabelPositions(text) == {j \in DOMAIN text : text[j].k \in {"label", "longlabel"}}

\* base.py:67-70  re.split: the content that follows the label at position j,
\* up to the next label or the end
SegmentAfter(text, j) ==
    LET later == {i \in LabelPositions(text) : i > j}
        stop == IF later = {} THEN Len(text) + 1
                ELSE CHOOSE i \in later : \A h \in later : i <= h
    IN Strip(SubSeq(text, j + 1, stop - 1))

\* base.py:68-75  results: label number -> content; a number met again takes
\* the place of the one before, and a label int() does not convert is
\* passed over with the content that follows it
SegmentsByLabel(text) ==
    LET converted == {j \in LabelPositions(text) : text[j].k = "label"}
        numbers == {text[j].n : j \in converted}
        last(n) == CHOOSE j \in converted :
                       /\ text[j].n = n
                       /\ \A i \in converted : text[i].n = n => i <= j
    IN [n \in numbers |-> SegmentAfter(text, last(n))]

\* base.py:63-80  _parse_batch_response
ParseBatchResponse(text, n) ==
    LET results == SegmentsByLabel(text)
    IN IF /\ Cardinality(DOMAIN results) = n
          /\ \A i \in 0..(n - 1) : (i + 1) \in DOMAIN results
       THEN [status |-> "parsed", value |-> [i \in 1..n |-> results[i]]]
       ELSE [status |-> "raised", value |-> <<>>]

\* The response of a request for expected units is parsed.
Parse ==
    /\ parse_pc = "raw"
    /\ parsed' = ParseBatchResponse(raw, expected)
    /\ parse_pc' = "done"
    /\ UNCHANGED <<raw, expected>>
    /\ UNCHANGED <<pipeline_vars, codec_vars, extract_vars>>

NextParse == Parse

\* the responses of at most MaxRaw tokens: letters, white space and labels
RawTokens ==
    {Ch("a"), Ch("b"), Ch(" "), LongLabel} \cup {Label(n) : n \in 1..MaxLabel}
Responses == UNION {[1..m -> RawTokens] : m \in 0..MaxRaw}

\* A response to a request for several units comes in.
InitParse ==
    /\ Configured("ollama", TRUE)
    /\ PipelineEntered(<<>>, 1, 1, 1, AbsentFile, {})
    /\ CodecIdle
    /\ ExtractIdle
    /\ raw \in Responses
    /\ expected \in 1..MaxExpected
    /\ parsed = [status |-> "none", value |-> <<>>]
    /\ parse_pc = "raw"

SpecParse == InitParse /\ [][NextParse]_vars

\* the labels of a response that stand for a number int() converts, in the
\* order they stand in it
LabelsOf(text) ==
    LET marks == SelectSeq(text, LAMBDA tok : tok.k = "label")
    IN [j \in DOMAIN marks |-> marks[j].n]

\* C28: a response is parsed exactly if its labels are the numbers 1..n,
\* each of them once, and no other label stands in it; the k-th result is
\* then the text after the label k.
C28_Original ==
    parse_pc = "done" =>
        LET labels == LabelsOf(raw)
        IN /\ parsed.status = "parsed" <=>
                 /\ Len(labels) = expected
                 /\ Range(labels) = 1..expected
                 /\ \A j \in DOMAIN raw : raw[j] # LongLabel
           /\ parsed.status = "parsed" =>
                 \A k \in 1..expected :
                     \A j \in LabelPositions(raw) :
                         (raw[j].k = "label" /\ raw[j].n = k)
                             => parsed.value[k] = SegmentAfter(raw, j)

\* ------------------------------------------------ the results of a batch
\* the k-th call of section s gave its units their translations
Accepted(s, k) ==
    IF IsSingle(s, k) THEN call_log[s][k].resp # "fault"
    ELSE Parses(call_log[s][k].resp)

\* One batch of n units sent through either translator.
InitBatch ==
    \E eng \in Engines, n \in 1..MaxN :
        /\ Configured(eng, TRUE)
        /\ Entered(<<[path |-> 1, lens |-> Ones(n)]>>, n, n, 1, AbsentFile, {})

NextBatch ==
    \/ NextOllama
    \/ \E s \in Sections : GatherBatch(s)
    \/ \E s \in Sections, j \in 1..MaxN, o \in Outcomes : RespondOne(s, j, o)
    \/ \E s \in Sections, j \in 1..MaxN : RespondOrphan(s, j)

SpecBatch == InitBatch /\ [][NextBatch]_vars

\* C27: when translate_batch returns for a batch of n units it returns n
\* translations, the k-th being the answer of the one accepted call that
\* held the k-th unit, and the pipeline inserts it at that unit.
C27_ResultsInInputOrder ==
    \A s \in Sections :
        (Planned(s) /\ pc[s] \in {"finishing", "critical", "done"}) =>
            /\ Len(inserted[s]) = UnitsOf(s)
            /\ \A j \in DOMAIN inserted[s] :
                  /\ inserted[s][j].block = j - 1
                  /\ inserted[s][j].translation.unit = j - 1
                  /\ \E k \in DOMAIN call_log[s] :
                        /\ Accepted(s, k)
                        /\ (j - 1) \in Range(call_log[s][k].texts)
                        /\ inserted[s][j].translation.text = call_log[s][k].resp
                        /\ \A h \in DOMAIN call_log[s] :
                              (Accepted(s, h) /\ (j - 1) \in Range(call_log[s][h].texts))
                                  => h = k

\* four units: the request for all four is rejected, the left half is
\* accepted as a whole, the right half is rejected and its two units are
\* answered one by one with texts of their own
C27_Witness ==
    /\ pc[1] = "done"
    /\ UnitsOf(1) = 4
    /\ Len(call_log[1]) = 5
    /\ call_log[1][1].resp = "malformed"
    /\ call_log[1][2] = [texts |-> <<0, 1>>, resp |-> "ok"]
    /\ call_log[1][3] = [texts |-> <<2, 3>>, resp |-> "malformed"]
    /\ call_log[1][4] = [texts |-> <<2>>, resp |-> "malformed"]
    /\ call_log[1][5] = [texts |-> <<3>>, resp |-> "ok"]
    /\ inserted[1][3].translation = Response(2, "malformed")
    /\ inserted[1][4].translation = Response(3, "ok")

\* C29 as stated: a fault of a request for several units halves the batch,
\* and a fault of a single-unit call fails that unit only: the units whose
\* calls were accepted keep their translations.
C29_Original ==
    \A s \in Sections : \A k \in DOMAIN call_log[s] :
        call_log[s][k].resp = "fault" =>
            IF IsSingle(s, k)
            THEN \A h \in DOMAIN call_log[s] :
                    Accepted(s, h) =>
                        \A u \in Range(call_log[s][h].texts) :
                            u \in Range(InsertedBlocks(s))
            ELSE k < Len(call_log[s]) =>
                    call_log[s][k + 1].texts = LeftHalf(call_log[s][k].texts)

\* C30 as stated: the text received before the total timeout is never taken
\* as the translation of a unit.
C30_Original ==
    \A s \in Sections : \A j \in DOMAIN inserted[s] :
        inserted[s][j].translation.text \notin TimeoutOutcomes

\* C30: a request that ran into the total timeout is answered with the text
\* received so far.  For a single unit that text becomes the unit's
\* translation; for several units it is parsed: with all labels in it its
\* segments become the translations, otherwise the batch is halved.  The
\* timeout never fails the section.
C30_PartialAccepted ==
    \A s \in Sections :
        /\ \A k \in DOMAIN call_log[s] :
              call_log[s][k].resp \in TimeoutOutcomes =>
                  /\ Accepted(s, k) =>
                        (pc[s] \in {"finishing", "critical", "done"} =>
                            \A u \in Range(call_log[s][k].texts) :
                                inserted[s][u + 1] =
                                    [block |-> u,
                                     translation |-> Response(u, call_log[s][k].resp)])
                  /\ ~Accepted(s, k) =>
                        IF k < Len(call_log[s])
                        THEN call_log[s][k + 1].texts = LeftHalf(call_log[s][k].texts)
                        ELSE /\ pc[s] = "call"
                             /\ Head(stack[s]).texts = LeftHalf(call_log[s][k].texts)
        /\ pc[s] = "error" => call_log[s][Len(call_log[s])].resp = "fault"

\* three units: the request for all three times out without all labels, the
\* call for unit 0 times out, the request for units 1 and 2 times out with
\* both labels: all three translations are texts cut off by the timeout
C30_Witness ==
    /\ pc[1] = "done"
    /\ UnitsOf(1) = 3
    /\ call_log[1] = <<[texts |-> <<0, 1, 2>>, resp |-> "cut"],
                       [texts |-> <<0>>, resp |-> "cut"],
                       [texts |-> <<1, 2>>, resp |-> "cut_parsed"]>>
    /\ inserted[1][1].translation = Response(0, "cut")
    /\ inserted[1][3].translation = Response(2, "cut_parsed")
    /\ ~ErrorReported(1)

\* ------------------------------------------- the batches of one section
\* the number of the batch of section s that holds unit u
BatchOf(s, u) == CHOOSE k \in DOMAIN batches[s] : u \in Range(batches[s][k])

\* the number of the batch the k-th call of section s was made for
CallBatch(s, k) == BatchOf(s, call_log[s][k].texts[1])

\* C31: the batches of a section are sent one after the other in the
\* planner's order: every request is for units of one batch, no request is
\* for a batch later than the first one not yet inserted, the requests
\* follow the order of the batches, and the translations inserted are
\* those of the batches handled, in unit order.
C31_BatchesInOrder ==
    \A s \in Sections :
        Planned(s) =>
            /\ \A k \in DOMAIN call_log[s] :
                  /\ Range(call_log[s][k].texts) \subseteq
                         Range(batches[s][CallBatch(s, k)])
                  /\ CallBatch(s, k) <= batch_idx[s] + 1
                  /\ \A j \in 1..(k - 1) : CallBatch(s, j) <= CallBatch(s, k)
            /\ \A texts \in WireTexts(s) :
                  Range(texts) \subseteq Range(batches[s][batch_idx[s] + 1])
            /\ InsertedBlocks(s) = HandledUnits(s)
            /\ \A j \in DOMAIN inserted[s] : inserted[s][j].block = j - 1

\* a section of two batches: the first one was halved, the second one was
\* sent after it, and all three units were inserted
C31_Witness ==
    \E s \in Sections :
        /\ pc[s] = "done"
        /\ Len(batches[s]) = 2
        /\ IsBisected(s, 1)
        /\ CallBatch(s, Len(call_log[s])) = 2
        /\ Len(inserted[s]) = 3

\* ------------------------------------------------------------ segmentation
\* core/epub/extractor.py  extract_blocks
\*
\* The body of a section is a forest of the nodes of the codec; a tag is
\* named by its path, the child numbers that lead to it from the top.
\* extractor.py:21-26
BLOCK_TAGS ==
    {"p", "h1", "h2", "h3", "h4", "h5", "h6", "li", "td", "th", "blockquote",
     "figcaption", "dt", "dd"}
SKIP_TAGS == {"pre", "code", "script", "style"}

\* the node of a forest at a path
RECURSIVE NodeAt(_, _)
NodeAt(forest, path) ==
    IF Len(path) = 1 THEN forest[path[1]]
    ELSE NodeAt(forest[path[1]].kids, Tail(path))

\* extractor.py:69  soup.find_all(names): the paths of the tags of these
\* names, in document order; FindFrom goes through nodes[j..] below prefix
RECURSIVE FindFrom(_, _, _, _)
FindFrom(nodes, j, prefix, names) ==
    IF j > Len(nodes) THEN <<>>
    ELSE LET node == nodes[j]
             here == Append(prefix, j)
         IN (IF node.type = "tag"
             THEN (IF node.name \in names THEN <<here>> ELSE <<>>)
                     \o FindFrom(node.kids, 1, here, names)
             ELSE <<>>)
            \o FindFrom(nodes, j + 1, prefix, names)
FindAll(forest, names) == FindFrom(forest, 1, <<>>, names)

\* extractor.py:216-223  _has_ancestor
HasParentOnly(forest, path, names) ==
    /\ Len(path) > 1
    /\ NodeAt(forest, SubSeq(path, 1, Len(path) - 1)).name \in names
HasAncestor(forest, path, names) ==
    \E k \in 1..(Len(path) - 1) : NodeAt(forest, SubSeq(path, 1, k)).name \in names

\* the pieces a class value is written of, the marker of translation
\* output being one piece
ClassPieces(v) ==
    CASE v = "ot-translation" -> <<"ot-translation">>
      [] v = "note ot-translation" -> <<"note", " ", "ot-translation">>
      [] v = "not-translation" -> <<"n", "ot-translation">>
      [] OTHER -> <<v>>

\* extractor.py:71  "ot-translation" in tag.get("class", []): the tree is
\* the XML one (line 67), whose class is one string, so the marker is looked
\* for anywhere in the value
HasMarker(node) ==
    \E j \in DOMAIN node.attrs :
        /\ node.attrs[j].key = "class"
        /\ "ot-translation" \in Range(ClassPieces(node.attrs[j].value))

\* extractor.py:83  tag.get_text(separator=" ", strip=True): the texts below
\* a node, each stripped, joined with spaces
RECURSIVE GetText(_), GetTextAll(_)
GetText(node) ==
    IF node.type = "text" THEN Strip(node.text) ELSE GetTextAll(node.kids)
GetTextAll(nodes) ==
    IF nodes = <<>> THEN <<>>
    ELSE LET first == GetText(Head(nodes))
             rest == GetTextAll(Tail(nodes))
         IN IF first = <<>> THEN rest
            ELSE IF rest = <<>> THEN first
            ELSE first \o <<Ch(" ")>> \o rest

\* extractor.py:50-55  TextBlock
TextBlock(tag, inner, text_content) ==
    [tag |-> tag, inner_html |-> inner, text_content |-> text_content]

\* extractor.py:69-89  the loop over the block tags found so far
RECURSIVE ExtractLoop(_, _)
ExtractLoop(forest, found) ==
    IF found = <<>> THEN <<>>
    ELSE LET tag == Head(found)
             node == NodeAt(forest, tag)
             rest == ExtractLoop(forest, Tail(found))
         IN IF HasMarker(node) THEN rest
            ELSE IF HasAncestor(forest, tag, SKIP_TAGS) THEN rest
            ELSE IF HasAncestor(forest, tag, BLOCK_TAGS) THEN rest
            ELSE IF Strip(GetText(node)) = <<>> THEN rest
            ELSE <<TextBlock(tag, decode_contents(node.kids), GetText(node))>> \o rest

\* extractor.py:58-91  extract_blocks
extract_blocks(forest) == ExtractLoop(forest, FindAll(forest, BLOCK_TAGS))

\* The body of the section is segmented.
Extract ==
    /\ extract_pc = "raw"
    /\ blocks' = extract_blocks(html_content)
    /\ extract_pc' = "done"
    /\ UNCHANGED html_content
    /\ UNCHANGED <<pipeline_vars, codec_vars, parse_vars>>

NextExtract == Extract

\* the tags of a body that hold other tags: block tags, two of them with
\* the marker of translation output in their class (alone, and after
\* another class as packer.py:47 writes it), a container and a verbatim
\* element
BodyKinds ==
    {[name |-> "p", attrs |-> <<>>],
     [name |-> "p", attrs |-> <<[key |-> "class", value |-> "note ot-translation"]>>],
     [name |-> "blockquote", attrs |-> <<[key |-> "class", value |-> "ot-translation"]>>],
     [name |-> "div", attrs |-> <<>>],
     [name |-> "pre", attrs |-> <<>>]}

\* the tags that hold text only: those, and block tags with a class
\* without the marker and with the marker inside a longer word
LeafKinds ==
    BodyKinds \cup
        {[name |-> "blockquote", attrs |-> <<[key |-> "class", value |-> "note"]>>],
         [name |-> "blockquote", attrs |-> <<[key |-> "class", value |-> "not-translation"]>>]}

\* what a tag without tags below it holds: a letter, a plain p also nothing
\* or white space
LeafContents(e) ==
    {<<TextNode(<<Ch("a")>>)>>}
        \cup (IF e.name = "p" /\ e.attrs = <<>> THEN {<<>>, <<TextNode(<<Ch(" ")>>)>>}
              ELSE {})

\* the trees and forests of exactly n tags
RECURSIVE BodyTreesOf(_), BodyForestsOf(_)
BodyTreesOf(n) ==
    IF n = 0 THEN {}
    ELSE IF n = 1
    THEN UNION {{Element(e.name, e.attrs, kids) : kids \in LeafContents(e)} :
                   e \in LeafKinds}
    ELSE {Element(e.name, e.attrs, kids) :
             e \in BodyKinds, kids \in BodyForestsOf(n - 1)}
BodyForestsOf(n) ==
    IF n = 0 THEN {<<>>}
    ELSE UNION {{<<tr>> \o f : tr \in BodyTreesOf(k), f \in BodyForestsOf(n - k)} :
                k \in 1..n}

\* the bodies of at most max tags
BodiesUpTo(max) == UNION {BodyForestsOf(n) : n \in 1..max}

\* The content of a section is handed to the segmentation.
InitExtract ==
    /\ Configured("ollama", TRUE)
    /\ PipelineEntered(<<>>, 1, 1, 1, AbsentFile, {})
    /\ CodecIdle
    /\ ParseIdle
    /\ html_content \in BodiesUpTo(MaxTags)
    /\ blocks = <<>>
    /\ extract_pc = "raw"

SpecExtract == InitExtract /\ [][NextExtract]_vars

\* the tags of the units that were yielded, in the order of the list
YieldedTags == [j \in DOMAIN blocks |-> blocks[j].tag]

\* a path lies above another one
IsAbove(upper, lower) ==
    /\ Len(upper) < Len(lower)
    /\ SubSeq(lower, 1, Len(upper)) = upper

\* a node comes before another one in document order
PathBefore(a, b) ==
    \/ IsAbove(a, b)
    \/ \E k \in 1..Len(a) :
          /\ k <= Len(b)
          /\ SubSeq(a, 1, k - 1) = SubSeq(b, 1, k - 1)
          /\ a[k] < b[k]

\* the paths of the tags of a forest
TagPaths(forest) == Range(FindAll(forest, BLOCK_TAGS \cup SKIP_TAGS \cup {"div"}))

\* the tags above a node
Above(forest, path) == {q \in TagPaths(forest) : IsAbove(q, path)}

\* a node has text that is not white space
HasText(node) == \E tok \in Range(GetText(node)) : tok # Ch(" ")

\* the reading of the specification: a block node with text, outside
\* verbatim elements, without the marker, under no node that qualifies itself
RECURSIVE Qualifies(_, _)
Qualifies(forest, path) ==
    LET node == NodeAt(forest, path)
    IN /\ node.name \in BLOCK_TAGS
       /\ HasText(node)
       /\ ~HasMarker(node)
       /\ \A q \in Above(forest, path) :
             /\ NodeAt(forest, q).name \notin SKIP_TAGS
             /\ ~Qualifies(forest, q)

\* C32 as stated: the units are, in document order, exactly the block nodes
\* with text that are outside verbatim elements, carry no marker and lie
\* under no other qualifying block node, so that a block under a block that
\* carries the marker is yielded.
C32_Original ==
    extract_pc = "done" =>
        YieldedTags = SelectSeq(FindAll(html_content, BLOCK_TAGS),
                                LAMBDA path : Qualifies(html_content, path))

\* C32 amended: the units are, in document order, exactly the block nodes
\* with text that carry no marker and lie under no verbatim element and under
\* no block node at all, qualifying or not; no unit lies under another unit,
\* and a block under a block that carries the marker is not yielded.
C32_OutermostBlocks ==
    extract_pc = "done" =>
        /\ Range(YieldedTags) =
              {path \in TagPaths(html_content) :
                  /\ NodeAt(html_content, path).name \in BLOCK_TAGS
                  /\ HasText(NodeAt(html_content, path))
                  /\ ~HasMarker(NodeAt(html_content, path))
                  /\ \A q \in Above(html_content, path) :
                        NodeAt(html_content, q).name \notin BLOCK_TAGS \cup SKIP_TAGS}
        /\ \A i, j \in DOMAIN blocks :
              i < j => /\ PathBefore(blocks[i].tag, blocks[j].tag)
                       /\ ~IsAbove(blocks[i].tag, blocks[j].tag)
        /\ \A path \in Range(YieldedTags) :
              \A q \in Above(html_content, path) : ~HasMarker(NodeAt(html_content, q))
        /\ \A j \in DOMAIN blocks :
              /\ blocks[j].text_content = GetText(NodeAt(html_content, blocks[j].tag))
              /\ blocks[j].inner_html =
                    decode_contents(NodeAt(html_content, blocks[j].tag).kids)

\* a body was segmented in which a block with text lies under a block that
\* carries the marker and another one under a container in a verbatim
\* element, and a unit was yielded after them
C32_Witness ==
    /\ extract_pc = "done"
    /\ blocks # <<>>
    /\ \E path \in TagPaths(html_content) :
          /\ NodeAt(html_content, path).name = "p"
          /\ HasText(NodeAt(html_content, path))
          /\ \E q \in Above(html_content, path) : HasMarker(NodeAt(html_content, q))
          /\ path \notin Range(YieldedTags)

\* ------------------------------------------------- the end of a run (C33)
\* C33: when run() ends, the cache directory with the section caches and the
\* progress file is removed exactly if no section failed; if one failed, the
\* directory, the progress file and the cache files stay as they are, and
\* every section completed in this run is listed and has its cache file.
C33_CacheRemovedIffNoFailure ==
    [][(main_pc = "gather" /\ main_pc' = "finished") =>
          /\ ~cache_dir' <=> ~SomeFailed
          /\ ~SomeFailed =>
                /\ progress_file' = AbsentFile
                /\ \A p \in AllPaths : cache_files'[p] = NoFile
          /\ SomeFailed =>
                /\ progress_file' = progress_file
                /\ cache_files' = cache_files
                /\ \A s \in DoneSections :
                      /\ [path |-> PathOf(s)] \in Range(progress_file'.completed)
                      /\ cache_files'[PathOf(s)] = NewContent(s)]_vars

\* a run ended in which one section failed and another one was completed,
\* and the directory, the progress file and the cache of the latter are there
C33_Witness ==
    /\ main_pc = "finished"
    /\ SomeFailed
    /\ cache_dir
    /\ \E s \in DoneSections :
          /\ progress_file = SavedProgress(completed_entries)
          /\ cache_files[PathOf(s)] = NewContent(s)

\* ------------------------------------------- values left to the mode (C34)
Modes == {"speed", "quality"}
AUTO == -1

\* config.py:39-42  effective_chapter_concurrency
effective_chapter_concurrency(value, mode) ==
    IF value > 0 THEN value ELSE IF mode = "speed" THEN 4 ELSE 1

\* config.py:44-47  effective_batch_size
effective_batch_size(value, mode) ==
    IF value > 0 THEN value ELSE IF mode = "speed" THEN 10 ELSE 3

\* A fresh run whose configuration may leave the number of concurrent
\* sections and the number of units of a batch to the mode.
InitAuto ==
    \E eng \in Engines, has \in BOOLEAN, doc \in Documents,
       bs \in {AUTO} \cup 1..MaxDocUnits, conc \in {AUTO} \cup 1..NumSections :
        /\ Configured(eng, has)
        /\ Entered(doc, bs, MaxDocUnits, conc, AbsentFile, {})

SpecAuto == InitAuto /\ [][Next]_vars

\* the permits of the gate of run(): those free and those held
GatePermits == semaphore + Cardinality(Holders)

\* C34 as stated: with chapter_concurrency or batch_size left to the mode
\* the run uses the positive default of its mode: run() gets its gate, which
\* has as many permits as effective_chapter_concurrency says, and the
\* sections are planned with the unit limit effective_batch_size says.
C34_Original ==
    \E mode \in Modes :
        /\ main_pc # "crashed"
        /\ main_pc \in {"gather", "finished"} =>
              /\ GatePermits = effective_chapter_concurrency(chapter_concurrency, mode)
              /\ GatePermits >= 1
        /\ \A s \in Sections : Planned(s) =>
              batches[s] = BuildBatches(chapters[s].lens,
                                        effective_batch_size(batch_size, mode),
                                        char_limit)

\* ------------------------------------------ the gate of the translator (C35)
\* A run with an OllamaTranslator that other callers use too, through
\* translate(); every section has a unit and one batch, and all sections may
\* run at once; every task that can take a step does so and every request is
\* answered.
InitGate ==
    \E doc \in {d \in Documents : \A s \in DOMAIN d : d[s].lens # <<>>} :
        /\ Configured("ollama", TRUE)
        /\ Entered(doc, MaxDocUnits, MaxDocUnits, NumSections, AbsentFile, {})

NextGate ==
    \/ NextOllama
    \/ Translate
    \/ \E j \in 1..MaxDirect : TranslateReturned(j)

SpecGate == InitGate /\ [][NextGate]_vars /\ WF_vars(NextGate)

\* the sections whose translate_batch holds the permit: a request of theirs
\* is in flight
InFlight == {s \in Sections : pc[s] = "call"}

\* C35: translate_batch takes the permit of the translator once, when it
\* starts; the requests for the halves and for single units go out while it
\* holds that permit and take none; at most max_concurrent requests are in
\* flight, those of translate() included, the free permits and the requests
\* in flight add up to max_concurrent, and every translate_batch that waits
\* for the permit gets it in the end, however many sections run.
C35_TranslatorGateLive ==
    /\ [](/\ Cardinality(InFlight) + Cardinality(DirectOnWire) <= DEFAULT_MAX_CONCURRENT
          /\ tr_sem + Cardinality(InFlight) + Cardinality(DirectOnWire)
                = DEFAULT_MAX_CONCURRENT
          /\ tr_sem >= 0)
    /\ [][/\ (tr_sem' < tr_sem) =>
                /\ tr_sem' = tr_sem - 1
                /\ \/ \E s \in Sections : /\ pc[s] = "tr_wait"
                                           /\ pc'[s] = "call"
                                           /\ Len(stack'[s]) = 1
                   \/ direct' = Append(direct, "wire")
          /\ \A t \in Sections :
                (pc[t] = "call" /\ pc'[t] = "call") => tr_sem' = tr_sem]_vars
    /\ \A s \in 1..NumSections :
          (s \in Sections /\ pc[s] = "tr_wait") ~> (s \in Sections /\ pc[s] = "call")

\* a request for a half of a bisected batch is in flight under the only
\* permit while the translate_batch of another section waits for it, after
\* a call of translate() had the permit
C35_Witness ==
    \E s, t \in Sections :
        /\ pc[s] = "call"
        /\ Len(stack[s]) >= 2
        /\ \E k \in DOMAIN call_log[s] : call_log[s][k].resp = "malformed"
        /\ pc[t] = "tr_wait"
        /\ tr_sem = 0
        /\ direct # <<>>

\* ------------------------------------------------ a run that is killed (C36)
\* The process is killed while run() waits for its section tasks: what is
\* on disk stays.
Kill ==
    /\ main_pc = "gather"
    /\ main_pc' = "killed"
    /\ UNCHANGED <<codec_vars, parse_vars, extract_vars>>
    /\ UNCHANGED <<config_vars, entries_is_list, direct, requests,
                   progress_file, cache_files, cache_dir, loaded_paths,
                   completed_entries, completed_paths, chapter_contents,
                   error_count, semaphore, entries_lock, tr_sem, pc, batches,
                   batch_idx, stack, inserted, call_log, events, output>>

\* pipeline.py:131  write_bytes opens the file, which empties it, and then
\* writes: a process killed in between leaves the file empty or cut short
PartialContent(p) == [kind |-> "partial", path |-> p, trans |-> <<>>]

\* pipeline.py:130-135: the process is killed inside the critical section of
\* section s: inside the write of the cache file (line 131), which leaves
\* that file empty or cut short; after it and before _save_progress (line
\* 135); or inside the write of the progress file, which leaves a file that
\* does not parse
KillInCompletion(s) ==
    /\ main_pc = "gather"
    /\ pc[s] = "critical"
    /\ \/ /\ cache_files' = [cache_files EXCEPT ![PathOf(s)] = PartialContent(PathOf(s))]
          /\ UNCHANGED progress_file
       \/ /\ cache_files' = [cache_files EXCEPT ![PathOf(s)] = NewContent(s)]
          /\ \/ UNCHANGED progress_file
             \/ /\ entries_is_list
                /\ progress_file' = MalformedFile
    /\ main_pc' = "killed"
    /\ UNCHANGED <<codec_vars, parse_vars, extract_vars>>
    /\ UNCHANGED <<config_vars, entries_is_list, direct, requests,
                   cache_dir, loaded_paths, completed_entries,
                   completed_paths, chapter_contents, error_count, semaphore,
                   entries_lock, tr_sem, pc, batches, batch_idx, stack,
                   inserted, call_log, events, output>>

\* packer.py:83-109  an archive that was not closed: the file is there and
\* has no directory, so no section can be read from it
Unreadable == [kind |-> "unreadable", path |-> 0, trans |-> <<>>]

\* pipeline.py:162, packer.py:83-109: the process is killed inside pack(),
\* while the entries of the archive are written, whether a section failed
\* or not: the output file is there and is no archive
KillInPack ==
    /\ main_pc = "gather"
    /\ \A s \in Sections : pc[s] \in Terminal
    /\ output' = [s \in Sections |-> Unreadable]
    /\ main_pc' = "killed"
    /\ UNCHANGED <<codec_vars, parse_vars, extract_vars>>
    /\ UNCHANGED <<config_vars, entries_is_list, direct, requests,
                   progress_file, cache_files, cache_dir, loaded_paths,
                   completed_entries, completed_paths, chapter_contents,
                   error_count, semaphore, entries_lock, tr_sem, pc, batches,
                   batch_idx, stack, inserted, call_log, events>>

\* pipeline.py:162-175: the process is killed after pack() closed the
\* archive and before anything of the cache directory is removed, whether a
\* section failed or not: the output is complete and the cache is as the
\* sections left it
KillAfterPack ==
    /\ main_pc = "gather"
    /\ \A s \in Sections : pc[s] \in Terminal
    /\ output' = [s \in Sections |-> Packed(s)]
    /\ main_pc' = "killed"
    /\ UNCHANGED <<codec_vars, parse_vars, extract_vars>>
    /\ UNCHANGED <<config_vars, entries_is_list, direct, requests,
                   progress_file, cache_files, cache_dir, loaded_paths,
                   completed_entries, completed_paths, chapter_contents,
                   error_count, semaphore, entries_lock, tr_sem, pc, batches,
                   batch_idx, stack, inserted, call_log, events>>

\* pipeline.py:165-169: the process is killed inside shutil.rmtree, which
\* unlinks the files of the directory one by one in the order os.scandir
\* lists them, an order the file system chooses, and removes the directory
\* itself last: any of the files may be gone and any may be left, and the
\* directory is gone only once every file is
KillInCleanup ==
    /\ main_pc = "gather"
    /\ \A s \in Sections : pc[s] \in Terminal
    /\ ShouldClean
    /\ output' = [s \in Sections |-> Packed(s)]
    /\ \E removed \in SUBSET {p \in AllPaths : cache_files[p] # NoFile} :
          cache_files' = [p \in AllPaths |->
                             IF p \in removed THEN NoFile ELSE cache_files[p]]
    /\ progress_file' \in {progress_file, AbsentFile}
    /\ IF progress_file' = AbsentFile /\ \A p \in AllPaths : cache_files'[p] = NoFile
       THEN cache_dir' \in BOOLEAN
       ELSE cache_dir' = TRUE
    /\ main_pc' = "killed"
    /\ UNCHANGED <<codec_vars, parse_vars, extract_vars>>
    /\ UNCHANGED <<config_vars, entries_is_list, direct, requests,
                   loaded_paths, completed_entries, completed_paths,
                   chapter_contents, error_count, semaphore, entries_lock,
                   tr_sem, pc, batches, batch_idx, stack, inserted, call_log,
                   events>>

\* a run that may be killed at any point
NextCrash ==
    \/ Next
    \/ Kill
    \/ \E s \in Sections : KillInCompletion(s)
    \/ KillInPack
    \/ KillAfterPack
    \/ KillInCleanup

\* A fresh run over a document, also one that names a section twice.
InitCrash == Init \/ InitSpine

SpecCrash == InitCrash /\ [][NextCrash]_vars

\* the progress file lists section s, and this run put it there
ListedByThisRun(s) ==
    /\ PathOf(s) \notin loaded_paths
    /\ [path |-> PathOf(s)] \in Range(progress_file.completed)

\* C36 as stated: whatever run() has done and wherever the process was
\* killed, every section the progress file on disk lists by this run has its
\* translated content in its cache file.
C36_Original ==
    \A s \in Sections : ListedByThisRun(s) => cache_files[PathOf(s)] = NewContent(s)

\* ------------------------------------------ one entry per section key (C37)
\* no two entries of a list name the same path
DistinctPaths(entries) ==
    \A i, j \in DOMAIN entries : entries[i].path = entries[j].path => i = j

\* C37 as stated: the list of completed sections, in memory and in the
\* progress file, never has two entries of one section key, whatever the
\* order of the section tasks, also for a document that names a section key
\* more than once.
C37_Original ==
    /\ DistinctPaths(completed_entries)
    /\ DistinctPaths(progress_file.completed)

\* ------------------------------------------------------- termination (C38)
\* A run over what an earlier run left on disk, in which every task that can
\* take a step does so and every request is answered.
SpecResumeFair == InitResume /\ [][NextUnitBatches]_vars /\ Fairness

\* run() has packaged the output, every section is in a terminal state and
\* the permits of both gates and the lock are free
RunTerminated ==
    /\ main_pc = "finished"
    /\ \A s \in Sections : pc[s] \in Terminal
    /\ DOMAIN output = Sections
    /\ semaphore = chapter_concurrency
    /\ tr_sem = DEFAULT_MAX_CONCURRENT
    /\ entries_lock = 0

\* C38 as stated: with every request answered a run always terminates: it
\* does not stop before the end, every section reaches a terminal state and
\* keeps it, the output is packaged once, after all sections have ended, and
\* then all permits and the lock are free.
C38_Original ==
    /\ [](main_pc \notin {"start", "gather"} => RunTerminated)
    /\ [][/\ \A s \in Sections : (pc[s] \in Terminal => pc'[s] = pc[s])
          /\ (output' # output) =>
                /\ main_pc = "gather"
                /\ main_pc' = "finished"
                /\ \A t \in Sections : pc[t] \in Terminal
          /\ (main_pc = "finished") => (main_pc' = "finished")]_vars
    /\ <>[]RunTerminated

====
